---- MODULE Spec2Model ----
(***************************************************************************)
(* Financial market ETL: MetricsCalculator.calculate,                      *)
(* DataValidator.validate and the load steps of Orchestrator.run_etl over  *)
(* in-memory tables.                                                       *)
(*                                                                         *)
(* A table (pandas DataFrame) is a sequence of rows; a row is a record     *)
(* from column name to cell.  Row labels are unique (calculate builds its  *)
(* frame with ignore_index=True), so a label and a position are the same.  *)
(*                                                                         *)
(* Cells are typed by column, as pandas dtypes:                            *)
(*   - input columns (Date, Symbol, Open, High, Low, Close, Adj_Close,     *)
(*     Volume and the economic indicators) hold integers, NaN the missing  *)
(*     value.  Prices are in cents (0.01 = 1), indicators in percent.      *)
(*   - float columns computed by calculate hold exact rationals <<n, d>>,  *)
(*     <<0,0>> the NaN, <<1,0>> / <<-1,0>> the infinities (IEEE division). *)
(*   - columns whose value is a square root or an exponential average      *)
(*     (Volatility, Bollinger deviation, EMA, MACD) hold the unevaluated   *)
(*     term: the function's name and the values it is applied to.          *)
(***************************************************************************)
EXTENDS Integers, Sequences, FiniteSets, TLC

VARIABLES pc, config, csv_data, json_data, api_data,
          metrics_data, validated_data, revalidated_data, exported_data,
          tasks, stack, log, main, raw_data

vars == <<pc, config, csv_data, json_data, api_data,
          metrics_data, validated_data, revalidated_data, exported_data,
          tasks, stack, log, main, raw_data>>

(***************************************************************************)
(* Cells                                                                   *)
(***************************************************************************)
\* np.nan in an integer-valued column
NaN == -999999999

\* np.nan in a float column computed by calculate (0/0)
RNaN == <<0, 0>>

\* np.nan in a term column
TNaN == [fn |-> "nan", xs |-> <<>>]

RatCols == {"Daily_Return", "MA_short", "MA_long", "RSI", "BB_Middle",
            "GDP_Growth_YoY_Change", "Unemployment_Rate_YoY_Change",
            "Inflation_Rate_YoY_Change", "Interest_Rate_YoY_Change",
            "Consumer_Confidence_YoY_Change"}

TermCols == {"Volatility", "BB_Std", "BB_Upper", "BB_Lower", "EMA_12",
             "EMA_26", "MACD", "MACD_Signal", "MACD_Histogram"}

BoolCols == {"Extreme_Return_Flag"}

\* np.nan in a column of strings
SNaN == "nan"

StrCols == {"Source", "indicator"}

NaNOf(col) ==
    IF col \in RatCols THEN RNaN
    ELSE IF col \in TermCols THEN TNaN
    ELSE IF col \in StrCols THEN SNaN ELSE NaN

\* Series.isnull, cell by cell
IsNull(col, v) == IF col \in BoolCols THEN FALSE ELSE v = NaNOf(col)

(***************************************************************************)
(* Exact rationals with the IEEE special values                            *)
(***************************************************************************)
Abs(x) == IF x < 0 THEN -x ELSE x

Sign(x) == IF x < 0 THEN -1 ELSE IF x > 0 THEN 1 ELSE 0

RECURSIVE GCD(_, _)
GCD(a, b) == IF b = 0 THEN a ELSE GCD(b, a % b)

Norm(n, d) ==
    IF d = 0 THEN <<Sign(n), 0>>
    ELSE LET g == GCD(Abs(n), Abs(d))
         IN  <<Sign(d) * (n \div g), Abs(d) \div g>>

ToR(x) == IF x = NaN THEN RNaN ELSE <<x, 1>>

RIsNaN(a) == a = RNaN

RIsInf(a) == a[2] = 0 /\ a[1] # 0

RNeg(a) == <<-a[1], a[2]>>

RAdd(a, b) ==
    IF RIsNaN(a) \/ RIsNaN(b) THEN RNaN
    ELSE IF RIsInf(a) THEN (IF RIsInf(b) /\ b # a THEN RNaN ELSE a)
    ELSE IF RIsInf(b) THEN b
    ELSE Norm(a[1] * b[2] + b[1] * a[2], a[2] * b[2])

RSub(a, b) == RAdd(a, RNeg(b))

\* float division: x/0 is an infinity, 0/0 and inf/inf are NaN, no exception
RDiv(a, b) ==
    IF RIsNaN(a) \/ RIsNaN(b) THEN RNaN
    ELSE IF RIsInf(b) THEN (IF RIsInf(a) THEN RNaN ELSE <<0, 1>>)
    ELSE IF b[1] = 0 THEN (IF a[1] = 0 THEN RNaN ELSE <<Sign(a[1]), 0>>)
    ELSE IF RIsInf(a) THEN <<a[1] * Sign(b[1]), 0>>
    ELSE Norm(a[1] * b[2], a[2] * b[1])

\* comparisons of floats: every comparison with NaN is False
RLt(a, b) ==
    /\ ~RIsNaN(a) /\ ~RIsNaN(b)
    /\ IF RIsInf(a) \/ RIsInf(b)
       THEN a # b /\ (a = <<-1, 0>> \/ b = <<1, 0>>)
       ELSE a[1] * b[2] < b[1] * a[2]

RGt(a, b) == RLt(b, a)

\* comparisons of integer cells: every comparison with NaN is False
Lt(a, b) == a # NaN /\ b # NaN /\ a < b

Gt(a, b) == Lt(b, a)

(***************************************************************************)
(* Frames                                                                  *)
(***************************************************************************)
Columns(df) == IF df = <<>> THEN {} ELSE DOMAIN df[1]

Col(df, col) == [i \in 1..Len(df) |-> df[i][col]]

SetCol(df, col, xs) == [i \in 1..Len(df) |-> [df[i] EXCEPT ![col] = xs[i]]]

AddCol(df, col, xs) ==
    [i \in 1..Len(df) |->
        [c \in DOMAIN df[i] \cup {col} |-> IF c = col THEN xs[i] ELSE df[i][c]]]

\* Series.ffill: propagate the last valid value forward
Ffill(xs, col) ==
    LET f[i \in 0..Len(xs)] ==
            IF i = 0 THEN NaNOf(col)
            ELSE IF ~IsNull(col, xs[i]) THEN xs[i] ELSE f[i - 1]
    IN  [i \in 1..Len(xs) |-> f[i]]

\* Series.bfill: propagate the next valid value backward
Bfill(xs, col) ==
    LET n == Len(xs)
        f[i \in 1..(n + 1)] ==
            IF i = n + 1 THEN NaNOf(col)
            ELSE IF ~IsNull(col, xs[i]) THEN xs[i] ELSE f[i + 1]
    IN  [i \in 1..n |-> f[i]]

\* DataFrame.ffill / DataFrame.bfill: every column, in row order
FrameFfill(df) ==
    [i \in 1..Len(df) |-> [c \in Columns(df) |-> Ffill(Col(df, c), c)[i]]]

FrameBfill(df) ==
    [i \in 1..Len(df) |-> [c \in Columns(df) |-> Bfill(Col(df, c), c)[i]]]

(***************************************************************************)
(* Config (validation thresholds; prices in cents)                         *)
(***************************************************************************)
\* config.min_stock_price = 0.01
min_stock_price == 1

\* config.max_stock_price = 100000
max_stock_price == 10000000

(***************************************************************************)
(* DataValidator.validate                                                  *)
(***************************************************************************)
IsPriceShaped(df) == {"Symbol", "Close"} \subseteq Columns(df)

IndicatorCols == <<"GDP_Growth", "Unemployment_Rate", "Inflation_Rate">>

IsEconomicShaped(df) ==
    \E k \in 1..Len(IndicatorCols) : IndicatorCols[k] \in Columns(df)

PriceCols == <<"Open", "High", "Low", "Close", "Adj_Close">>

\* (df[col] < self.min_price) | (df[col] > self.max_price)
OutOfRange(v) == Lt(v, min_stock_price) \/ Gt(v, max_stock_price)

\* mutant: the column is backward-filled before it is forward-filled
RepairPriceColBackwardFirst(df, col) ==
    IF col \notin Columns(df) THEN df
    ELSE IF \A i \in 1..Len(df) : ~OutOfRange(df[i][col]) THEN df
    ELSE LET holes == [i \in 1..Len(df) |->
                          IF OutOfRange(df[i][col]) THEN NaN ELSE df[i][col]]
         IN  SetCol(df, col, Ffill(Bfill(holes, col), col))

\* one pass of the loop over price_cols: out-of-range values become NaN and
\* the column is forward-filled, then backward-filled
RepairPriceCol(df, col) ==
    IF col \notin Columns(df) THEN df
    ELSE IF \A i \in 1..Len(df) : ~OutOfRange(df[i][col]) THEN df
    ELSE LET holes == [i \in 1..Len(df) |->
                          IF OutOfRange(df[i][col]) THEN NaN ELSE df[i][col]]
         IN  SetCol(df, col, Bfill(Ffill(holes, col), col))

RECURSIVE RepairPrices(_, _)
RepairPrices(df, k) ==
    IF k > Len(PriceCols) THEN df
    ELSE RepairPrices(RepairPriceCol(df, PriceCols[k]), k + 1)

\* the mask of inconsistent_rows
Inconsistent(row) ==
    \/ Lt(row.High, row.Low)
    \/ Lt(row.High, row.Open)
    \/ Lt(row.High, row.Close)
    \/ Gt(row.Low, row.Open)
    \/ Gt(row.Low, row.Close)

\* Python's max(a, b, c, d): keeps the first argument unless a later one
\* compares greater, so a NaN first argument is returned and a later NaN skipped
RECURSIVE PyMaxFrom(_, _, _)
PyMaxFrom(xs, k, m) ==
    IF k > Len(xs) THEN m
    ELSE PyMaxFrom(xs, k + 1, IF Gt(xs[k], m) THEN xs[k] ELSE m)

PyMax(xs) == PyMaxFrom(xs, 2, xs[1])

RECURSIVE PyMinFrom(_, _, _)
PyMinFrom(xs, k, m) ==
    IF k > Len(xs) THEN m
    ELSE PyMinFrom(xs, k + 1, IF Lt(xs[k], m) THEN xs[k] ELSE m)

PyMin(xs) == PyMinFrom(xs, 2, xs[1])

\* mutant: only High is repaired
RepairOHLCRowHighOnly(row) ==
    IF Inconsistent(row)
    THEN [row EXCEPT
            !.High = PyMax(<<row.Open, row.High, row.Low, row.Close>>)]
    ELSE row

\* the loop over inconsistent_rows.iterrows(): each row is read from the
\* snapshot and written back at its own label
RepairOHLCRow(row) ==
    IF Inconsistent(row)
    THEN [row EXCEPT
            !.High = PyMax(<<row.Open, row.High, row.Low, row.Close>>),
            !.Low = PyMin(<<row.Open, row.High, row.Low, row.Close>>)]
    ELSE row

RepairOHLC(df) == [i \in 1..Len(df) |-> RepairOHLCRow(df[i])]

\* mutant: a negative volume loses its sign
ClampVolumeAbsolute(df) ==
    IF "Volume" \notin Columns(df) THEN df
    ELSE [i \in 1..Len(df) |->
            IF Lt(df[i].Volume, 0) THEN [df[i] EXCEPT !.Volume = -@] ELSE df[i]]

\* df.loc[df['Volume'] < 0, 'Volume'] = 0
ClampVolume(df) ==
    IF "Volume" \notin Columns(df) THEN df
    ELSE [i \in 1..Len(df) |->
            IF Lt(df[i].Volume, 0) THEN [df[i] EXCEPT !.Volume = 0] ELSE df[i]]

\* (df['Daily_Return'] < -0.5) | (df['Daily_Return'] > 0.5)
ExtremeReturn(r) == RLt(r, <<-1, 2>>) \/ RGt(r, <<1, 2>>)

\* the flag column is written only when some return is extreme
FlagExtremeReturns(df) ==
    IF "Daily_Return" \notin Columns(df) THEN df
    ELSE IF \A i \in 1..Len(df) : ~ExtremeReturn(df[i].Daily_Return) THEN df
    ELSE AddCol(df, "Extreme_Return_Flag",
                [i \in 1..Len(df) |-> ExtremeReturn(df[i].Daily_Return)])

ValidatePrices(df) ==
    FlagExtremeReturns(ClampVolume(RepairOHLC(
        RepairPrices(FrameBfill(FrameFfill(df)), 1))))

IndicatorMin(col) ==
    IF col = "GDP_Growth" THEN -10
    ELSE IF col = "Unemployment_Rate" THEN 0 ELSE -5

IndicatorMax(col) ==
    IF col = "GDP_Growth" THEN 15
    ELSE IF col = "Unemployment_Rate" THEN 30 ELSE 25

IndicatorOutOfRange(col, v) ==
    Lt(v, IndicatorMin(col)) \/ Gt(v, IndicatorMax(col))

\* mutant: the out-of-range values are blanked and the fill is forgotten
RepairIndicatorColNoFill(df, col) ==
    IF col \notin Columns(df) THEN df
    ELSE [i \in 1..Len(df) |->
            IF IndicatorOutOfRange(col, df[i][col])
            THEN [df[i] EXCEPT ![col] = NaN] ELSE df[i]]

\* mutant: the column is backward-filled as well, as the price columns are
RepairIndicatorColBothWays(df, col) ==
    IF col \notin Columns(df) THEN df
    ELSE IF \A i \in 1..Len(df) : ~IndicatorOutOfRange(col, df[i][col]) THEN df
    ELSE LET holes == [i \in 1..Len(df) |->
                          IF IndicatorOutOfRange(col, df[i][col])
                          THEN NaN ELSE df[i][col]]
         IN  SetCol(df, col, Bfill(Ffill(holes, col), col))

\* out-of-range values become NaN and the column is forward-filled only
RepairIndicatorCol(df, col) ==
    IF col \notin Columns(df) THEN df
    ELSE IF \A i \in 1..Len(df) : ~IndicatorOutOfRange(col, df[i][col]) THEN df
    ELSE LET holes == [i \in 1..Len(df) |->
                          IF IndicatorOutOfRange(col, df[i][col])
                          THEN NaN ELSE df[i][col]]
         IN  SetCol(df, col, Ffill(holes, col))

RECURSIVE RepairIndicators(_, _)
RepairIndicators(df, k) ==
    IF k > Len(IndicatorCols) THEN df
    ELSE RepairIndicators(RepairIndicatorCol(df, IndicatorCols[k]), k + 1)

ValidateIndicators(df) == RepairIndicators(FrameBfill(FrameFfill(df)), 1)

\* None, the default of the three arguments of calculate: a value that is
\* no table and equals none
None == <<[None |-> TRUE]>>

\* df['High'], df['Low'], df['Open'] are read without a presence check
ValidateRaises(df) ==
    /\ df # None /\ df # <<>>
    /\ IsPriceShaped(df)
    /\ ~({"Open", "High", "Low"} \subseteq Columns(df))

\* mutant: validate repairs the caller's table in place; a raise comes after
\* the fills
ValidateArgumentInPlace(df) ==
    IF df = <<>> THEN df
    ELSE IF ValidateRaises(df) THEN FrameBfill(FrameFfill(df))
    ELSE IF IsPriceShaped(df) THEN ValidatePrices(df)
    ELSE IF IsEconomicShaped(df) THEN ValidateIndicators(df)
    ELSE df

\* the caller's table after the call, returned or raised: validate works on
\* data.copy()
ValidateArgument(df) == df

\* mutant: the fills of the price branch are applied to a table of any
\* other format too
ValidateFillsUnknown(df) ==
    IF df = None \/ df = <<>> THEN <<>>
    ELSE IF IsPriceShaped(df) THEN ValidatePrices(df)
    ELSE IF IsEconomicShaped(df) THEN ValidateIndicators(df)
    ELSE FrameBfill(FrameFfill(df))

Validate(df) ==
    IF df = None \/ df = <<>> THEN <<>>
    ELSE IF IsPriceShaped(df) THEN ValidatePrices(df)
    ELSE IF IsEconomicShaped(df) THEN ValidateIndicators(df)
    ELSE df

(***************************************************************************)
(* MetricsCalculator.calculate                                             *)
(***************************************************************************)
\* rolling(window=14) of the RSI
RSI_WINDOW == 14

\* rolling(window=20) of the Bollinger Bands
BB_WINDOW == 20

\* pct_change(periods=12) of the economic indicators
YOY_PERIODS == 12

\* pd.concat(dfs, ignore_index=True): the rows one after the other, each over
\* the union of the columns, NaN where a frame lacks the column
RECURSIVE ConcatRows(_, _)
ConcatRows(dfs, k) ==
    IF k > Len(dfs) THEN <<>> ELSE dfs[k] \o ConcatRows(dfs, k + 1)

ConcatFrames(dfs) ==
    LET cols == UNION {Columns(dfs[k]) : k \in 1..Len(dfs)}
        rows == ConcatRows(dfs, 1)
    IN  [i \in 1..Len(rows) |->
            [c \in cols |->
                IF c \in DOMAIN rows[i] THEN rows[i][c] ELSE NaNOf(c)]]

\* mutant: only .empty is tested, None is kept
NonEmptyInputsNoneKept(csv, json, api) ==
    SelectSeq(<<csv, json, api>>, LAMBDA d : d # <<>>)

\* the inputs that are neither None nor empty
NonEmptyInputs(csv, json, api) ==
    SelectSeq(<<csv, json, api>>, LAMBDA d : d # None /\ d # <<>>)

\* Series.unique(): the values in order of first appearance (NaN included)
RECURSIVE UniqueFrom(_, _, _)
UniqueFrom(xs, k, seen) ==
    IF k > Len(xs) THEN seen
    ELSE UniqueFrom(xs, k + 1,
                    IF \E j \in 1..Len(seen) : seen[j] = xs[k]
                    THEN seen ELSE Append(seen, xs[k]))

Unique(xs) == UniqueFrom(xs, 1, <<>>)

\* df[df['Symbol'] == symbol]: NaN equals nothing, itself included
SymbolFrame(df, symbol) ==
    SelectSeq(df, LAMBDA r : r.Symbol # NaN /\ symbol # NaN /\ r.Symbol = symbol)

\* mutant: the frame is left in its input order
SortByDateSkipped(df) == df

\* sort_values('Date'): ascending, NaN last (dates of a series are distinct)
DateLe(a, b) == b = NaN \/ (a # NaN /\ a <= b)

RECURSIVE InsertByDate(_, _)
InsertByDate(sorted, r) ==
    IF sorted = <<>> THEN <<r>>
    ELSE IF DateLe(sorted[Len(sorted)].Date, r.Date) THEN Append(sorted, r)
    ELSE Append(InsertByDate(SubSeq(sorted, 1, Len(sorted) - 1), r),
                sorted[Len(sorted)])

RECURSIVE SortFrom(_, _, _)
SortFrom(df, k, sorted) ==
    IF k > Len(df) THEN sorted
    ELSE SortFrom(df, k + 1, InsertByDate(sorted, df[k]))

SortByDate(df) == SortFrom(df, 1, <<>>)

\* mutant: the change is taken relative to the current value
PctChangeOfCurrent(xs, periods) ==
    [i \in 1..Len(xs) |->
        IF i <= periods THEN RNaN
        ELSE RSub(<<1, 1>>, RDiv(xs[i - periods], xs[i]))]

\* Series.pct_change(periods): x / x.shift(periods) - 1
PctChange(xs, periods) ==
    [i \in 1..Len(xs) |->
        IF i <= periods THEN RNaN
        ELSE RSub(RDiv(xs[i], xs[i - periods]), <<1, 1>>)]

\* Series.diff(): x - x.shift(1)
Diff(xs) ==
    [i \in 1..Len(xs) |-> IF i = 1 THEN RNaN ELSE RSub(xs[i], xs[i - 1])]

RECURSIVE RSum(_, _, _)
RSum(xs, lo, hi) ==
    IF lo > hi THEN <<0, 1>> ELSE RAdd(xs[lo], RSum(xs, lo + 1, hi))

\* the rows at which rolling(window) has a full window of valid values
WindowFilled(xs, w, i, nan) ==
    i >= w /\ \A j \in (i - w + 1)..i : xs[j] # nan

\* mutant: min_periods=1, the mean of the rows there are
RollingMeanPartial(xs, w) ==
    [i \in 1..Len(xs) |->
        LET lo == IF i >= w THEN i - w + 1 ELSE 1
        IN  IF \A j \in lo..i : xs[j] # RNaN
            THEN RDiv(RSum(xs, lo, i), <<i - lo + 1, 1>>) ELSE RNaN]

\* Series.rolling(window=w).mean(): min_periods is the window
RollingMean(xs, w) ==
    [i \in 1..Len(xs) |->
        IF WindowFilled(xs, w, i, RNaN)
        THEN RDiv(RSum(xs, i - w + 1, i), <<w, 1>>) ELSE RNaN]

\* a rolling function that is kept as a term over its window of values;
\* the sample standard deviation needs two values
RollingTerm(fn, xs, w, nan) ==
    [i \in 1..Len(xs) |->
        IF w >= 2 /\ WindowFilled(xs, w, i, nan)
        THEN [fn |-> fn, xs |-> SubSeq(xs, i - w + 1, i)] ELSE TNaN]

\* Series.ewm(span, adjust=False).mean() and what is computed from it: a
\* term over the values up to the row, seeded by the first value
PrefixTerm(fn, xs) ==
    [i \in 1..Len(xs) |->
        IF \A j \in 1..i : xs[j] = NaN THEN TNaN
        ELSE [fn |-> fn, xs |-> SubSeq(xs, 1, i)]]

\* mutant: the comparison for +1 is not strict
MaSignalNonStrict(short, long) ==
    IF RLt(short, long) THEN -1
    ELSE IF short # RNaN /\ long # RNaN THEN 1 ELSE 0

\* mutant: the two signs are exchanged
MaSignalInverted(short, long) ==
    IF RGt(short, long) THEN -1 ELSE IF RLt(short, long) THEN 1 ELSE 0

\* MA_Signal: 0, then 1 where short > long, then -1 where short < long
MaSignal(short, long) ==
    LET s0 == 0
        s1 == IF RGt(short, long) THEN 1 ELSE s0
    IN  IF RLt(short, long) THEN -1 ELSE s1

\* delta.where(delta > 0, 0) and -delta.where(delta < 0, 0)
Gain(delta) ==
    [i \in 1..Len(delta) |-> IF RGt(delta[i], <<0, 1>>) THEN delta[i] ELSE <<0, 1>>]

Loss(delta) ==
    [i \in 1..Len(delta) |->
        IF RLt(delta[i], <<0, 1>>) THEN RNeg(delta[i]) ELSE <<0, 1>>]

\* rs = avg_gain / avg_loss; 100 - (100 / (1 + rs))
Rsi(avg_gain, avg_loss) ==
    RSub(<<100, 1>>,
         RDiv(<<100, 1>>, RAdd(<<1, 1>>, RDiv(avg_gain, avg_loss))))

\* the body of the loop over symbols, after the sort
SymbolMetrics(sdf, cfg) ==
    LET close == [i \in 1..Len(sdf) |-> ToR(sdf[i].Close)]
        raw == Col(sdf, "Close")
        ret == PctChange(close, 1)
        ma_s == RollingMean(close, cfg.ma_short_window)
        ma_l == RollingMean(close, cfg.ma_long_window)
        vol == RollingTerm("std*sqrt(252)", ret, cfg.volatility_window, RNaN)
        delta == Diff(close)
        avg_gain == RollingMean(Gain(delta), RSI_WINDOW)
        avg_loss == RollingMean(Loss(delta), RSI_WINDOW)
        bb_mid == RollingMean(close, BB_WINDOW)
        bb_std == RollingTerm("std", raw, BB_WINDOW, NaN)
        bb_up == RollingTerm("mean+2*std", raw, BB_WINDOW, NaN)
        bb_lo == RollingTerm("mean-2*std", raw, BB_WINDOW, NaN)
        ema12 == PrefixTerm("ewm12", raw)
        ema26 == PrefixTerm("ewm26", raw)
        macd == PrefixTerm("ewm12-ewm26", raw)
        macd_sig == PrefixTerm("ewm9(macd)", raw)
        macd_hist == PrefixTerm("macd-ewm9(macd)", raw)
    IN  [i \in 1..Len(sdf) |->
            [c \in DOMAIN sdf[i] \cup
                   {"Daily_Return", "MA_short", "MA_long", "MA_Signal",
                    "Volatility", "RSI", "BB_Middle", "BB_Std", "BB_Upper",
                    "BB_Lower", "EMA_12", "EMA_26", "MACD", "MACD_Signal",
                    "MACD_Histogram"} |->
                CASE c = "Daily_Return" -> ret[i]
                  [] c = "MA_short" -> ma_s[i]
                  [] c = "MA_long" -> ma_l[i]
                  [] c = "MA_Signal" -> MaSignal(ma_s[i], ma_l[i])
                  [] c = "Volatility" -> vol[i]
                  [] c = "RSI" -> Rsi(avg_gain[i], avg_loss[i])
                  [] c = "BB_Middle" -> bb_mid[i]
                  [] c = "BB_Std" -> bb_std[i]
                  [] c = "BB_Upper" -> bb_up[i]
                  [] c = "BB_Lower" -> bb_lo[i]
                  [] c = "EMA_12" -> ema12[i]
                  [] c = "EMA_26" -> ema26[i]
                  [] c = "MACD" -> macd[i]
                  [] c = "MACD_Signal" -> macd_sig[i]
                  [] c = "MACD_Histogram" -> macd_hist[i]
                  [] OTHER -> sdf[i][c]]]

\* the loop over df['Symbol'].unique() and pd.concat(result_dfs)
RECURSIVE SymbolResults(_, _, _, _)
SymbolResults(df, symbols, k, cfg) ==
    IF k > Len(symbols) THEN <<>>
    ELSE SymbolMetrics(SortByDate(SymbolFrame(df, symbols[k])), cfg)
             \o SymbolResults(df, symbols, k + 1, cfg)

\* mutant: the indicators are computed over the whole table, not per symbol
CalculatePricesUngrouped(df, cfg) == SymbolMetrics(SortByDate(df), cfg)

CalculatePrices(df, cfg) ==
    SymbolResults(df, Unique(Col(df, "Symbol")), 1, cfg)

YoYCols == <<"GDP_Growth", "Unemployment_Rate", "Inflation_Rate",
             "Interest_Rate", "Consumer_Confidence">>

YoYName(col) ==
    CASE col = "GDP_Growth" -> "GDP_Growth_YoY_Change"
      [] col = "Unemployment_Rate" -> "Unemployment_Rate_YoY_Change"
      [] col = "Inflation_Rate" -> "Inflation_Rate_YoY_Change"
      [] col = "Interest_Rate" -> "Interest_Rate_YoY_Change"
      [] col = "Consumer_Confidence" -> "Consumer_Confidence_YoY_Change"

\* mutant: the look-back is a year of quarterly data
RECURSIVE AddYoYQuarterly(_, _)
AddYoYQuarterly(df, k) ==
    IF k > Len(YoYCols) THEN df
    ELSE IF YoYCols[k] \notin Columns(df) THEN AddYoYQuarterly(df, k + 1)
    ELSE AddYoYQuarterly(
             AddCol(df, YoYName(YoYCols[k]),
                    PctChange([i \in 1..Len(df) |-> ToR(df[i][YoYCols[k]])], 4)),
             k + 1)

RECURSIVE AddYoY(_, _)
AddYoY(df, k) ==
    IF k > Len(YoYCols) THEN df
    ELSE IF YoYCols[k] \notin Columns(df) THEN AddYoY(df, k + 1)
    ELSE AddYoY(AddCol(df, YoYName(YoYCols[k]),
                       PctChange([i \in 1..Len(df) |-> ToR(df[i][YoYCols[k]])],
                                 YOY_PERIODS)),
                k + 1)

CalculateIndicators(df) == AddYoY(SortByDate(df), 1)

\* both recognised branches sort by a Date column they do not check for
CalculateRaises(csv, json, api) ==
    LET dfs == NonEmptyInputs(csv, json, api)
        df == ConcatFrames(dfs)
    IN  /\ dfs # <<>>
        /\ IsPriceShaped(df) \/ IsEconomicShaped(df)
        /\ "Date" \notin Columns(df)

\* the caller's tables after the call, returned or raised: calculate works
\* on a copy of the frame pd.concat builds
CalculateArguments(csv, json, api) == <<csv, json, api>>

Calculate(csv, json, api, cfg) ==
    LET dfs == NonEmptyInputs(csv, json, api)
        df == ConcatFrames(dfs)
    IN  IF dfs = <<>> THEN <<>>
        ELSE IF IsPriceShaped(df) THEN CalculatePrices(df, cfg)
        ELSE IF IsEconomicShaped(df) THEN CalculateIndicators(df)
        ELSE df

(***************************************************************************)
(* Task, SimpleScheduler and the tasks of the Orchestrator                 *)
(***************************************************************************)
\* the tasks _setup_tasks registers
TaskNames ==
    {"extract_csv", "extract_json", "extract_api",
     "transform_csv_data", "transform_json_data", "transform_api_data",
     "calculate_metrics", "validate_data", "load_to_db", "export_to_csv"}

\* Task.dependencies of each of them, in list order
dependencies(name) ==
    CASE name = "transform_csv_data" -> <<"extract_csv">>
      [] name = "transform_json_data" -> <<"extract_json">>
      [] name = "transform_api_data" -> <<"extract_api">>
      [] name = "calculate_metrics" ->
            <<"transform_csv_data", "transform_json_data",
              "transform_api_data">>
      [] name = "validate_data" -> <<"calculate_metrics">>
      [] name = "load_to_db" -> <<"validate_data">>
      [] name = "export_to_csv" -> <<"validate_data">>
      [] OTHER -> <<>>

\* a line of the log: what is logged, the task or the source it is about,
\* and the depth of SimpleScheduler.run at which it is written (0 outside)
Line(line, name, depth) == [line |-> line, name |-> name, depth |-> depth]

\* the lines Task.execute writes: the start, and the completion or the failure
ExecuteLines(name, depth, returned) ==
    <<Line("Executing task", name, depth),
      Line(IF returned THEN "Task completed" ELSE "Task failed", name, depth)>>

\* Task.execute on the flags: completed is set when the function has returned
Executed(ts, name, returned) ==
    IF returned THEN [ts EXCEPT ![name].completed = TRUE] ELSE ts

\* main before its loop, with no source to process
NoMain == [data_sources |-> <<>>, i |-> 0]

\* an Orchestrator that has run every task before, with no call of the
\* scheduler in progress
Idle ==
    /\ tasks = [t \in TaskNames |-> [completed |-> TRUE]]
    /\ stack = <<>>
    /\ log = <<>>
    /\ main = NoMain
    /\ raw_data = <<>>

(***************************************************************************)
(* Bounds and input tables                                                 *)
(***************************************************************************)
\* rows of a table in which one row ranges over every OHLC combination
MaxOhlcRows == 2

\* rows of a table in which one column ranges over every value sequence
MaxRows == 3

NoConfig == [ma_short_window |-> 0, ma_long_window |-> 0,
             volatility_window |-> 0]

\* missing, just below / at the lower threshold, at / just above the upper one
PriceVals == {NaN, min_stock_price - 1, min_stock_price,
              max_stock_price, max_stock_price + 1}

OhlcCols == {"Open", "High", "Low", "Close"}

CleanOhlc == [Open |-> min_stock_price, High |-> max_stock_price,
              Low |-> min_stock_price, Close |-> max_stock_price]

\* a clean row, and the clean row with one price missing
FixtureOhlc == {CleanOhlc} \cup {[CleanOhlc EXCEPT ![c] = NaN] : c \in OhlcCols}

FreeOhlc == [OhlcCols -> PriceVals]

VolumeVals == {NaN, -50, 0, 100}

ReturnVals == {RNaN, <<-3, 4>>, <<-1, 2>>, <<0, 1>>, <<1, 2>>, <<1, 1>>}

\* a row of the validator's input: one symbol, dates ascending
PriceRow(i, ohlc, volume, ret) ==
    [Date |-> i, Symbol |-> 1, Open |-> ohlc.Open, High |-> ohlc.High,
     Low |-> ohlc.Low, Close |-> ohlc.Close, Volume |-> volume,
     Daily_Return |-> ret]

\* one row over every OHLC combination, the others fixtures
OhlcTables(rows) ==
    UNION {UNION {{[j \in 1..n |->
                      PriceRow(j, IF j = i THEN fr ELSE fx[j], 100, <<0, 1>>)] :
                    fr \in FreeOhlc, fx \in [(1..n) \ {i} -> FixtureOhlc]} :
                  i \in 1..n} : n \in 1..rows}

\* one price column over every value sequence, the other prices clean
PriceColTables ==
    UNION {{[j \in 1..n |->
                PriceRow(j, [CleanOhlc EXCEPT ![c] = xs[j]], 100, <<0, 1>>)] :
              c \in OhlcCols, xs \in [1..n -> PriceVals]} : n \in 1..MaxRows}

VolumeTables ==
    UNION {{[j \in 1..n |-> PriceRow(j, CleanOhlc, xs[j], <<0, 1>>)] :
              xs \in [1..n -> VolumeVals]} : n \in 1..MaxRows}

ReturnTables ==
    UNION {{[j \in 1..n |-> PriceRow(j, CleanOhlc, 100, xs[j])] :
              xs \in [1..n -> ReturnVals]} : n \in 1..MaxRows}

\* a table with an Adj_Close column over every value sequence
AdjCloseTables ==
    UNION {{[j \in 1..n |->
                [c \in DOMAIN PriceRow(j, CleanOhlc, 100, <<0, 1>>)
                        \cup {"Adj_Close"} |->
                    IF c = "Adj_Close" THEN xs[j]
                    ELSE PriceRow(j, CleanOhlc, 100, <<0, 1>>)[c]]] :
              xs \in [1..n -> PriceVals]} : n \in 1..MaxRows}

\* one row over every combination of missing, lowest, highest and too high
\* prices, the others clean
OhlcRowTables ==
    UNION {UNION {{[j \in 1..n |->
                      PriceRow(j, IF j = i THEN fr ELSE CleanOhlc, 100, <<0, 1>>)] :
                    fr \in [OhlcCols -> PriceVals \ {min_stock_price - 1}]} :
                  i \in 1..n} : n \in 1..MaxRows}

PriceTables(rows) ==
    OhlcTables(rows) \cup PriceColTables \cup VolumeTables \cup ReturnTables

\* the tables on which each repair step of validate is exercised
RepairTables ==
    OhlcRowTables \cup PriceColTables \cup VolumeTables \cup ReturnTables
        \cup AdjCloseTables

(***************************************************************************)
(* Validation of a price table, and a second pass over its result          *)
(***************************************************************************)
InitValidate ==
    /\ pc = "calculated"
    /\ config = NoConfig
    /\ csv_data = <<>> /\ json_data = <<>> /\ api_data = <<>>
    /\ metrics_data \in PriceTables(MaxOhlcRows)
    /\ validated_data = <<>>
    /\ revalidated_data = <<>>
    /\ exported_data = <<>>
    /\ Idle

\* validated_data = scheduler.run("validate_data", metrics_data)
validate_data ==
    /\ pc = "calculated"
    /\ metrics_data # <<>>
    /\ stack = <<>>
    /\ \A d \in {"validate_data", "calculate_metrics"} :
        d \in DOMAIN tasks /\ tasks[d].completed
    /\ IF ValidateRaises(metrics_data)
       THEN pc' = "failed" /\ UNCHANGED validated_data
       ELSE pc' = "validated" /\ validated_data' = Validate(metrics_data)
    /\ metrics_data' = ValidateArgument(metrics_data)
    /\ tasks' = Executed(tasks, "validate_data", pc' = "validated")
    /\ log' = log \o ExecuteLines("validate_data", 1, pc' = "validated")
    /\ UNCHANGED <<config, csv_data, json_data, api_data, revalidated_data,
                   exported_data, stack, main, raw_data>>

\* validate applied to its own result
revalidate_data ==
    /\ pc = "validated"
    /\ pc' = "revalidated"
    /\ revalidated_data' = Validate(validated_data)
    /\ UNCHANGED <<config, csv_data, json_data, api_data, metrics_data,
                   validated_data, exported_data, tasks, stack, log, main,
                   raw_data>>

NextValidate == validate_data \/ revalidate_data

SpecValidate == InitValidate /\ [][NextValidate]_vars

InitRepair ==
    /\ pc = "calculated"
    /\ config = NoConfig
    /\ csv_data = <<>> /\ json_data = <<>> /\ api_data = <<>>
    /\ metrics_data \in RepairTables
    /\ validated_data = <<>>
    /\ revalidated_data = <<>>
    /\ exported_data = <<>>
    /\ Idle

NextRepair == validate_data

SpecRepair == InitRepair /\ [][NextRepair]_vars

(***************************************************************************)
(* The pipeline on price data: calculate_metrics, then validate_data       *)
(***************************************************************************)
\* rows of the table handed to calculate
MaxCalcRows == 4

\* rows of the single series handed to calculate for the RSI
MaxSeriesLen == 15

\* price changes within that series
MaxChanges == 3

Symbols == {1, 2}

\* closes of 1.00 and 2.00
CloseVals == {100, 200}

\* windows short enough for a series of MaxCalcRows rows to fill them
SmallConfig == [ma_short_window |-> 2, ma_long_window |-> 3,
                volatility_window |-> 2]

\* Config.__init__: the transformation parameters
DefaultConfig == [ma_short_window |-> 20, ma_long_window |-> 50,
                  volatility_window |-> 20]

CalcRow(date, symbol, close) ==
    [Date |-> date, Symbol |-> symbol, Open |-> close, High |-> close,
     Low |-> close, Close |-> close, Volume |-> 100]

\* the dates of each symbol's k rows are 1..k; the rows of the first symbol
\* come in any order, those of the second in date order
SeriesDates(sym) ==
    LET n == Len(sym)
    IN  {d \in [1..n -> 1..n] :
            /\ \A i \in 1..n :
                d[i] <= Cardinality({j \in 1..n : sym[j] = sym[i]})
            /\ \A i, j \in 1..n : (i # j /\ sym[i] = sym[j]) => d[i] # d[j]
            /\ \A i, j \in 1..n :
                (i < j /\ sym[i] = 2 /\ sym[j] = 2) => d[i] < d[j]}

\* the closes of the first symbol vary, the second symbol is steady
SeriesCloses(sym) ==
    {cl \in [1..Len(sym) -> CloseVals] :
        \A i \in 1..Len(sym) : sym[i] = 2 => cl[i] = 100}

InitPipeline ==
    /\ pc = "transformed"
    /\ config = SmallConfig
    /\ \E n \in 1..MaxCalcRows :
        \E sym \in [1..n -> Symbols] :
            \E d \in SeriesDates(sym) :
                \E cl \in SeriesCloses(sym) :
                    csv_data = [i \in 1..n |-> CalcRow(d[i], sym[i], cl[i])]
    /\ json_data = <<>> /\ api_data = <<>>
    /\ metrics_data = <<>>
    /\ validated_data = <<>>
    /\ revalidated_data = <<>>
    /\ exported_data = <<>>
    /\ Idle

\* metrics_data = scheduler.run("calculate_metrics", csv_data=..., ...) with
\* every dependency completed, so that the task itself is all that runs;
\* run_etl goes on to validate only if the result is not empty
calculate_metrics ==
    /\ pc = "transformed"
    /\ stack = <<>>
    /\ \A d \in {"calculate_metrics", "transform_csv_data",
                  "transform_json_data", "transform_api_data"} :
        d \in DOMAIN tasks /\ tasks[d].completed
    /\ IF CalculateRaises(csv_data, json_data, api_data)
       THEN pc' = "failed" /\ UNCHANGED metrics_data
       ELSE /\ metrics_data' = Calculate(csv_data, json_data, api_data, config)
            /\ pc' = IF metrics_data' = <<>> THEN "done" ELSE "calculated"
    /\ LET after == CalculateArguments(csv_data, json_data, api_data)
       IN  csv_data' = after[1] /\ json_data' = after[2] /\ api_data' = after[3]
    /\ tasks' = Executed(tasks, "calculate_metrics", pc' # "failed")
    /\ log' = log \o ExecuteLines("calculate_metrics", 1, pc' # "failed")
    /\ UNCHANGED <<config, validated_data, revalidated_data, exported_data,
                   stack, main, raw_data>>

\* datetime.now() at the load
LoadTimestamps == {1, 2}

\* the caller's table after DBLoader.load: nothing is done for an empty
\* table; otherwise the load_timestamp column is written into the table
\* itself, unless the directory or the engine failed before (the exception
\* is caught and False returned either way)
LoadArgument(data, now, reached) ==
    IF data = <<>> \/ ~reached THEN data
    ELSE AddCol(data, "load_timestamp", [i \in 1..Len(data) |-> now])

\* the caller's table after CSVLoader.export: it is read, and copied for
\* the file of each symbol
ExportArgument(data) == data

\* self.scheduler.run("load_to_db", validated_data)
load_to_db ==
    /\ pc = "validated"
    /\ stack = <<>>
    /\ \A d \in {"load_to_db", "validate_data"} :
        d \in DOMAIN tasks /\ tasks[d].completed
    /\ pc' = "loaded"
    /\ \E now \in LoadTimestamps, reached \in BOOLEAN :
        validated_data' = LoadArgument(validated_data, now, reached)
    /\ tasks' = Executed(tasks, "load_to_db", TRUE)
    /\ log' = log \o ExecuteLines("load_to_db", 1, TRUE)
    /\ UNCHANGED <<config, csv_data, json_data, api_data, metrics_data,
                   revalidated_data, exported_data, stack, main, raw_data>>

\* self.scheduler.run("export_to_csv", validated_data): exported_data is
\* the table written to the consolidated file
export_to_csv ==
    /\ pc = "loaded"
    /\ stack = <<>>
    /\ \A d \in {"export_to_csv", "validate_data"} :
        d \in DOMAIN tasks /\ tasks[d].completed
    /\ pc' = "exported"
    /\ exported_data' = validated_data
    /\ validated_data' = ExportArgument(validated_data)
    /\ tasks' = Executed(tasks, "export_to_csv", TRUE)
    /\ log' = log \o ExecuteLines("export_to_csv", 1, TRUE)
    /\ UNCHANGED <<config, csv_data, json_data, api_data, metrics_data,
                   revalidated_data, stack, main, raw_data>>

Init == InitPipeline

Next == calculate_metrics \/ validate_data \/ load_to_db \/ export_to_csv

Spec == Init /\ [][Next]_vars

(***************************************************************************)
(* calculate on one long series, with the default windows                  *)
(***************************************************************************)
\* a series that starts at one close and changes to the other close at most
\* MaxChanges times
ChangePoints(n) == {F \in SUBSET (2..n) : Cardinality(F) <= MaxChanges}

CloseAt(first, changes, i) ==
    IF Cardinality({j \in changes : j <= i}) % 2 = 0
    THEN first
    ELSE CHOOSE c \in CloseVals : c # first

InitSeries ==
    /\ pc = "transformed"
    /\ config = DefaultConfig
    /\ \E n \in 1..MaxSeriesLen :
        \E first \in CloseVals :
            \E changes \in ChangePoints(n) :
                csv_data = [i \in 1..n |->
                               CalcRow(i, 1, CloseAt(first, changes, i))]
    /\ json_data = <<>> /\ api_data = <<>>
    /\ metrics_data = <<>>
    /\ validated_data = <<>>
    /\ revalidated_data = <<>>
    /\ exported_data = <<>>
    /\ Idle

NextSeries == calculate_metrics

SpecSeries == InitSeries /\ [][NextSeries]_vars

(***************************************************************************)
(* calculate on one rising series, with the default windows                *)
(***************************************************************************)
\* rows of the rising series
MaxTrendLen == 60

\* strictly increasing closes: by one a row from 1.00, by five from 0.01,
\* by one and three in turn, and by more with every row
TrendPatterns == {"linear", "steep", "uneven", "convex"}

TrendClose(pattern, i) ==
    CASE pattern = "linear" -> 99 + i
      [] pattern = "steep" -> 5 * i - 4
      [] pattern = "uneven" -> 100 + 2 * i + (i % 2)
      [] pattern = "convex" -> 100 + i * i

InitTrend ==
    /\ pc = "transformed"
    /\ config = DefaultConfig
    /\ \E n \in 1..MaxTrendLen :
        \E pattern \in TrendPatterns :
            \E descending \in BOOLEAN :
                csv_data = [i \in 1..n |->
                    LET d == IF descending THEN n + 1 - i ELSE i
                    IN  CalcRow(d, 1, TrendClose(pattern, d))]
    /\ json_data = <<>> /\ api_data = <<>>
    /\ metrics_data = <<>>
    /\ validated_data = <<>>
    /\ revalidated_data = <<>>
    /\ exported_data = <<>>
    /\ Idle

NextTrend == calculate_metrics

SpecTrend == InitTrend /\ [][NextTrend]_vars

(***************************************************************************)
(* calculate on a table of economic indicators                             *)
(***************************************************************************)
\* rows of the indicator table handed to calculate
MaxIndicatorRows == 14

YoYColSet == {YoYCols[k] : k \in 1..Len(YoYCols)}

ColIndex(c) == CHOOSE k \in 1..Len(YoYCols) : YoYCols[k] = c

\* the value of an indicator on a date: rising by one a row (100, 101, ...
\* for the first indicator), constant, or rising from zero
IndicatorPatterns == {"rising", "flat", "from_zero"}

IndicatorValue(c, d, pattern) ==
    CASE pattern = "rising" -> 100 * ColIndex(c) + d - 1
      [] pattern = "flat" -> 5 * ColIndex(c)
      [] pattern = "from_zero" -> (d - 1) * ColIndex(c)

\* a row of the pivoted indicators; a table with none of the indicators has
\* a column of another name
IndicatorRow(d, shape, pattern) ==
    [c \in {"Date"} \cup (IF shape = {} THEN {"Value"} ELSE shape) |->
        IF c = "Date" THEN d
        ELSE IF c = "Value" THEN 7 ELSE IndicatorValue(c, d, pattern)]

InitIndicators ==
    /\ pc = "transformed"
    /\ config = DefaultConfig
    /\ csv_data = <<>> /\ api_data = <<>>
    /\ \E n \in 1..MaxIndicatorRows :
        \E shape \in SUBSET YoYColSet :
            \E pattern \in IndicatorPatterns :
                \E descending \in BOOLEAN :
                    json_data = [i \in 1..n |->
                        IndicatorRow(IF descending THEN n + 1 - i ELSE i,
                                     shape, pattern)]
    /\ metrics_data = <<>>
    /\ validated_data = <<>>
    /\ revalidated_data = <<>>
    /\ exported_data = <<>>
    /\ Idle

NextIndicators == calculate_metrics

SpecIndicators == InitIndicators /\ [][NextIndicators]_vars

(***************************************************************************)
(* calculate and validate on tables of every shape, from any of the three  *)
(* sources                                                                 *)
(***************************************************************************)
\* rows of a table of these shapes
MaxShapeRows == 2

\* the column sets: a full price table, one without Open, High and Low, one
\* without Date, an indicator table, one without Date, and an unknown format
TableShapes ==
    {{"Date", "Symbol", "Open", "High", "Low", "Close", "Volume"},
     {"Date", "Symbol", "Close"},
     {"Symbol", "Open", "High", "Low", "Close"},
     {"Date", "GDP_Growth", "Interest_Rate"},
     {"GDP_Growth"},
     {"Date", "Value"}}

\* a row with dates descending, the second close out of range, a negative
\* volume, a GDP growth out of range and the second Value missing
ShapeRow(i, n, shape, sym) ==
    [c \in shape |->
        CASE c = "Date" -> n + 1 - i
          [] c = "Symbol" -> sym
          [] c = "Close" -> IF i = 2 THEN max_stock_price + 1 ELSE 200
          [] c = "Open" -> 100
          [] c = "High" -> 100
          [] c = "Low" -> 100
          [] c = "Volume" -> -50
          [] c = "GDP_Growth" -> IF i = 1 THEN 2 ELSE 16
          [] c = "Value" -> IF i = 2 THEN NaN ELSE 7
          [] OTHER -> 7]

ShapeTables ==
    {<<>>} \cup
    UNION {{[i \in 1..n |-> ShapeRow(i, n, shape, sym)] :
              shape \in TableShapes, sym \in Symbols} : n \in 1..MaxShapeRows}

InitValues ==
    /\ pc = "transformed"
    /\ config = SmallConfig
    /\ csv_data \in ShapeTables
    /\ json_data \in ShapeTables
    /\ api_data = <<>>
    /\ metrics_data = <<>>
    /\ validated_data = <<>>
    /\ revalidated_data = <<>>
    /\ exported_data = <<>>
    /\ Idle

SpecValues == InitValues /\ [][Next]_vars

(***************************************************************************)
(* calculate and validate called with None, an empty table or a table,     *)
(* as the tests call them                                                  *)
(***************************************************************************)
\* what an argument can be: None, the empty table, a table of any shape
CallTables == {None} \cup ShapeTables

\* the third argument: None, the empty table, a table of unknown format
ApiTables == {None, <<>>, <<ShapeRow(1, 1, {"Date", "Value"}, 1)>>}

InitCalls ==
    /\ config = SmallConfig
    /\ \/ /\ pc = "transformed"
          /\ csv_data \in CallTables
          /\ json_data \in CallTables
          /\ api_data \in ApiTables
          /\ metrics_data = <<>>
       \/ /\ pc = "test_validation"
          /\ csv_data = <<>> /\ json_data = <<>> /\ api_data = <<>>
          /\ metrics_data \in CallTables
    /\ validated_data = <<>>
    /\ revalidated_data = <<>>
    /\ exported_data = <<>>
    /\ Idle

\* validated_data = self.validator.validate(metrics_data): validate called
\* on whatever it is given, without the emptiness test of run_etl
test_validation ==
    /\ pc = "test_validation"
    /\ IF ValidateRaises(metrics_data)
       THEN pc' = "validate_failed" /\ UNCHANGED validated_data
       ELSE pc' = "validated" /\ validated_data' = Validate(metrics_data)
    /\ metrics_data' = ValidateArgument(metrics_data)
    /\ UNCHANGED <<config, csv_data, json_data, api_data, revalidated_data,
                   exported_data, tasks, stack, log, main, raw_data>>

NextCalls == calculate_metrics \/ test_validation

SpecCalls == InitCalls /\ [][NextCalls]_vars

(***************************************************************************)
(* MarketDataTransformer                                                   *)
(***************************************************************************)
\* sort_values(['Symbol', 'Date']): by Symbol, then by Date, NaN last, rows
\* with the same keys in the order they had
SymbolDateLe(a, b) ==
    IF a.Symbol = b.Symbol THEN DateLe(a.Date, b.Date)
    ELSE DateLe(a.Symbol, b.Symbol)

RECURSIVE InsertBySymbolDate(_, _)
InsertBySymbolDate(sorted, r) ==
    IF sorted = <<>> THEN <<r>>
    ELSE IF SymbolDateLe(sorted[Len(sorted)], r) THEN Append(sorted, r)
    ELSE Append(InsertBySymbolDate(SubSeq(sorted, 1, Len(sorted) - 1), r),
                sorted[Len(sorted)])

RECURSIVE SortBySymbolDateFrom(_, _, _)
SortBySymbolDateFrom(df, k, sorted) ==
    IF k > Len(df) THEN sorted
    ELSE SortBySymbolDateFrom(df, k + 1, InsertBySymbolDate(sorted, df[k]))

SortBySymbolDate(df) == SortBySymbolDateFrom(df, 1, <<>>)

\* the column Source with one value in every row
WithSource(df, source) == AddCol(df, "Source", [i \in 1..Len(df) |-> source])

\* sort_values(['Symbol', 'Date']) on a table without one of the columns
TransformPricesRaises(data) ==
    /\ data # None /\ data # <<>>
    /\ ~({"Symbol", "Date"} \subseteq Columns(data))

\* transform_csv_data: forward fill, Source, sort (the conversions to
\* datetime and to numbers leave the cells of the model as they are)
transform_csv_data(data) ==
    IF data = None \/ data = <<>> THEN <<>>
    ELSE SortBySymbolDate(WithSource(FrameFfill(data), "CSV"))

\* transform_api_data: Adj_Close from Close, Source, sort; no fill
transform_api_data(data) ==
    IF data = None \/ data = <<>> THEN <<>>
    ELSE LET adj == IF "Close" \in Columns(data)
                       /\ "Adj_Close" \notin Columns(data)
                    THEN AddCol(data, "Adj_Close", Col(data, "Close"))
                    ELSE data
             src == IF "Source" \notin Columns(adj)
                    THEN WithSource(adj, "API") ELSE adj
         IN  SortBySymbolDate(src)

\* df.rename(columns={'date': 'Date'}), done if there is a column date
RenameDate(df) ==
    IF "date" \notin Columns(df) THEN df
    ELSE [i \in 1..Len(df) |->
            [c \in (Columns(df) \ {"date"}) \cup {"Date"} |->
                IF c = "Date" THEN df[i].date ELSE df[i][c]]]

RECURSIVE Ascending(_)
Ascending(S) ==
    IF S = {} THEN <<>>
    ELSE LET m == CHOOSE x \in S : \A y \in S : x <= y
         IN  <<m>> \o Ascending(S \ {m})

\* pivot_table(index='Date', columns='indicator', values='value',
\* aggfunc='first').reset_index(): a row for each date and a column for each
\* indicator that have a value, the first value of each pair, dates ascending
Pivot(df) ==
    LET valued == {i \in 1..Len(df) :
                      /\ df[i].Date # NaN /\ df[i].indicator # SNaN
                      /\ df[i].value # NaN}
        dates == Ascending({df[i].Date : i \in valued})
        inds == {df[i].indicator : i \in valued}
        first(d, ind) ==
            LET at == {i \in valued : df[i].Date = d /\ df[i].indicator = ind}
            IN  IF at = {} THEN NaN
                ELSE df[CHOOSE i \in at : \A j \in at : i <= j].value
    IN  [k \in 1..Len(dates) |->
            [c \in {"Date"} \cup inds |->
                IF c = "Date" THEN dates[k] ELSE first(dates[k], c)]]

\* the pivot and the sort both need the column Date
TransformJsonRaises(data) ==
    /\ data # None /\ data # <<>>
    /\ "Date" \notin Columns(RenameDate(data))

\* transform_json_data: rename, pivot if the rows are (indicator, value)
\* pairs, Source, sort by Date
transform_json_data(data) ==
    IF data = None \/ data = <<>> THEN <<>>
    ELSE LET df == RenameDate(data)
             pivot_df == IF {"indicator", "value"} \subseteq Columns(df)
                         THEN Pivot(df) ELSE df
         IN  SortByDate(WithSource(pivot_df, "JSON"))

(***************************************************************************)
(* What the extractors read                                                *)
(***************************************************************************)
\* the CSV file: no row; two symbols out of order with a missing close; a
\* file without the columns Open, High and Low; a file without Symbol
RawCsvTables ==
    {<<>>,
     <<CalcRow(1, 2, 100), CalcRow(1, 1, 200),
       [CalcRow(2, 1, 100) EXCEPT !.Close = NaN]>>,
     <<[Date |-> 1, Symbol |-> 1, Close |-> 100]>>,
     <<[Date |-> 1, Value |-> 7]>>}

\* the JSON file: no indicator; three values of two indicators, the later
\* date first; a file whose entries have no date
RawJsonTables ==
    {<<>>,
     <<[date |-> 2, indicator |-> "GDP_Growth", value |-> 3],
       [date |-> 1, indicator |-> "GDP_Growth", value |-> 2],
       [date |-> 1, indicator |-> "Interest_Rate", value |-> 5]>>,
     <<[indicator |-> "GDP_Growth", value |-> 3]>>}

\* the API, or its mock data: a row, or two rows with the later date first
RawApiTables ==
    {<<CalcRow(1, 1, 100)>>,
     <<CalcRow(2, 1, 200), CalcRow(1, 1, 100)>>}

(***************************************************************************)
(* The task functions                                                      *)
(***************************************************************************)
\* args[0] if args else None
FirstArg(args) == IF args = <<>> THEN None ELSE args[1]

\* a keyword argument of calculate, None by default
Kwarg(kwargs, k) == IF k \in DOMAIN kwargs THEN kwargs[k] ELSE None

Returned(result) == [raised |-> FALSE, result |-> result]

Raised == [raised |-> TRUE, result |-> None]

\* an extractor returns what it reads, or raises
Extracted(tables) == {Raised} \cup {Returned(t) : t \in tables}

\* validate, load and export take one positional table and nothing else
OneTable(args, kwargs) == Len(args) = 1 /\ DOMAIN kwargs = {}

\* Task.func of each task: the outcomes of calling it with the arguments
\* of the run
func(name, args, kwargs, cfg) ==
    CASE name = "extract_csv" -> Extracted(RawCsvTables)
      [] name = "extract_json" -> Extracted(RawJsonTables)
      [] name = "extract_api" ->
            \* the range of dates is converted outside any try; without the
            \* keywords it is the well-formed default of Config
            IF "start_date" \in DOMAIN kwargs THEN Extracted(RawApiTables)
            ELSE {Returned(t) : t \in RawApiTables}
      [] name = "transform_csv_data" ->
            IF TransformPricesRaises(FirstArg(args)) THEN {Raised}
            ELSE {Returned(transform_csv_data(FirstArg(args)))}
      [] name = "transform_json_data" ->
            IF TransformJsonRaises(FirstArg(args)) THEN {Raised}
            ELSE {Returned(transform_json_data(FirstArg(args)))}
      [] name = "transform_api_data" ->
            IF TransformPricesRaises(FirstArg(args)) THEN {Raised}
            ELSE {Returned(transform_api_data(FirstArg(args)))}
      [] name = "calculate_metrics" ->
            LET csv == Kwarg(kwargs, "csv_data")
                json == Kwarg(kwargs, "json_data")
                api == Kwarg(kwargs, "api_data")
            IN  IF CalculateRaises(csv, json, api) THEN {Raised}
                ELSE {Returned(Calculate(csv, json, api, cfg))}
      [] name = "validate_data" ->
            IF ~OneTable(args, kwargs) THEN {Raised}
            ELSE IF ValidateRaises(args[1]) THEN {Raised}
            ELSE {Returned(Validate(args[1]))}
      [] name \in {"load_to_db", "export_to_csv"} ->
            IF ~OneTable(args, kwargs) THEN {Raised}
            ELSE {Returned(<<>>)}

(***************************************************************************)
(* main, Orchestrator.run_etl and SimpleScheduler.run                      *)
(***************************************************************************)
\* the values of --source and the list main makes of each
SourceLists == {<<"csv">>, <<"json">>, <<"api">>, <<"csv", "json", "api">>}

\* the source of the run_etl call in progress
Source == main.data_sources[main.i]

\* the calls of the scheduler run_etl makes, in order
Stages == <<"extract", "transform", "calculate", "validate", "load", "export">>

StageSet == {Stages[k] : k \in 1..Len(Stages)}

\* the entry point of each call
EntryPoint(stage, source) ==
    CASE stage = "extract" ->
            (CASE source = "csv" -> "extract_csv"
               [] source = "json" -> "extract_json"
               [] source = "api" -> "extract_api")
      [] stage = "transform" ->
            (CASE source = "csv" -> "transform_csv_data"
               [] source = "json" -> "transform_json_data"
               [] source = "api" -> "transform_api_data")
      [] stage = "calculate" -> "calculate_metrics"
      [] stage = "validate" -> "validate_data"
      [] stage = "load" -> "load_to_db"
      [] stage = "export" -> "export_to_csv"

\* its positional arguments
Args(stage) ==
    CASE stage = "transform" -> <<raw_data>>
      [] stage = "validate" -> <<metrics_data>>
      [] stage \in {"load", "export"} -> <<validated_data>>
      [] OTHER -> <<>>

\* its keyword arguments
Kwargs(stage, source) ==
    CASE stage = "extract" /\ source = "api" ->
            [symbols |-> "symbols", start_date |-> "start", end_date |-> "end"]
      [] stage = "calculate" ->
            [csv_data |-> csv_data, json_data |-> json_data,
             api_data |-> api_data]
      [] OTHER -> <<>>

\* a call of SimpleScheduler.run: the task, the position in the loop over
\* its dependencies, and the arguments
Frame(name, args, kwargs) ==
    [name |-> name, k |-> 1, args |-> args, kwargs |-> kwargs]

\* mutant: the error ends the loop
ExceptBreak(m) == [m EXCEPT !.i = Len(m.data_sources)]

\* the except clause of main: the error is logged and the loop goes on
ExceptContinue(m) == m

\* an exception leaves every call of run and run_etl and is caught in main
Propagate(lines, error) ==
    /\ stack' = <<>>
    /\ pc' = "main"
    /\ log' = log \o lines \o <<Line(error, Source, 0)>>
    /\ main' = ExceptContinue(main)
    /\ UNCHANGED <<config, csv_data, json_data, api_data, metrics_data,
                   validated_data, revalidated_data, exported_data, tasks,
                   raw_data>>

\* for source in data_sources: try: orchestrator.run_etl(source, ...), up to
\* the first call of the scheduler; after the loop main is completed
main_loop ==
    /\ pc = "main"
    /\ stack = <<>>
    /\ IF main.i < Len(main.data_sources)
       THEN /\ main' = [main EXCEPT !.i = @ + 1]
            /\ log' = log \o <<Line("Processing", main'.data_sources[main'.i], 0),
                                Line("Running ETL pipeline",
                                     main'.data_sources[main'.i], 0)>>
            /\ csv_data' = <<>> /\ json_data' = <<>> /\ api_data' = <<>>
            /\ raw_data' = <<>>
            /\ metrics_data' = <<>> /\ validated_data' = <<>>
            /\ pc' = "extract"
            /\ UNCHANGED <<config, revalidated_data, exported_data, tasks,
                           stack>>
       ELSE /\ pc' = "completed"
            /\ log' = Append(log, Line("Pipeline completed", "", 0))
            /\ UNCHANGED <<config, csv_data, json_data, api_data,
                           metrics_data, validated_data, revalidated_data,
                           exported_data, tasks, stack, main, raw_data>>

\* self.scheduler.run(entry_point, ...) called by run_etl: the entry point
\* must be registered
run ==
    /\ pc \in StageSet
    /\ stack = <<>>
    /\ LET entry == EntryPoint(pc, Source)
       IN  IF entry \notin DOMAIN tasks
           THEN Propagate(<<>>, "Error processing: Task not found")
           ELSE /\ stack' = <<Frame(entry, Args(pc), Kwargs(pc, Source))>>
                /\ UNCHANGED <<pc, config, csv_data, json_data, api_data,
                               metrics_data, validated_data, revalidated_data,
                               exported_data, tasks, log, main, raw_data>>

\* mutant: a dependency is not run, whether it is completed or not
RunsDependencyNever(ts, dep) == FALSE

\* mutant: a dependency is run whether it is completed or not
RunsDependencyAlways(ts, dep) == TRUE

\* if not dep_task.completed: self.run(dep_name, *args, **kwargs)
RunsDependency(ts, dep) == ~ts[dep].completed

\* one turn of the loop over task.dependencies: a dependency that is not
\* registered is an error, one that is not completed is run with the same
\* arguments, one that is completed is passed over
check_dependency ==
    /\ stack # <<>>
    /\ LET depth == Len(stack)
           top == stack[depth]
       IN  /\ top.k <= Len(dependencies(top.name))
           /\ LET dep == dependencies(top.name)[top.k]
              IN  IF dep \notin DOMAIN tasks
                  THEN Propagate(<<>>, "Error processing: Dependency not found")
                  ELSE /\ stack' =
                            IF RunsDependency(tasks, dep)
                            THEN Append(stack, Frame(dep, top.args, top.kwargs))
                            ELSE [stack EXCEPT ![depth].k = @ + 1]
                       /\ UNCHANGED <<pc, config, csv_data, json_data,
                                      api_data, metrics_data, validated_data,
                                      revalidated_data, exported_data, tasks,
                                      log, main, raw_data>>

\* the locals of run_etl and what was exported
Locals ==
    [pc |-> pc, raw_data |-> raw_data, csv_data |-> csv_data,
     json_data |-> json_data, api_data |-> api_data,
     metrics_data |-> metrics_data, validated_data |-> validated_data,
     exported_data |-> exported_data]

\* mutant: run_etl goes on to validate whatever calculate has returned
ContinueWithEmpty(loc, source, arg, result, now, reached) ==
    CASE loc.pc = "extract" ->
            [loc EXCEPT !.raw_data = result, !.pc = "transform"]
      [] loc.pc = "transform" ->
            [loc EXCEPT !.csv_data = IF source = "csv" THEN result ELSE @,
                        !.json_data = IF source = "json" THEN result ELSE @,
                        !.api_data = IF source = "api" THEN result ELSE @,
                        !.pc = "calculate"]
      [] loc.pc = "calculate" ->
            [loc EXCEPT !.metrics_data = result, !.pc = "validate"]
      [] loc.pc = "validate" ->
            [loc EXCEPT !.validated_data = result, !.pc = "load"]
      [] loc.pc = "load" ->
            [loc EXCEPT !.validated_data = LoadArgument(arg, now, reached),
                        !.pc = "export"]
      [] loc.pc = "export" ->
            [loc EXCEPT !.exported_data = arg,
                        !.validated_data = ExportArgument(arg),
                        !.pc = "main"]

\* run_etl after a call of the scheduler has returned: the result is
\* assigned, the load has written into the table it was given, and the
\* next call is the next stage, or none after an empty metrics table and
\* after the export
Continue(loc, source, arg, result, now, reached) ==
    CASE loc.pc = "extract" ->
            [loc EXCEPT !.raw_data = result, !.pc = "transform"]
      [] loc.pc = "transform" ->
            [loc EXCEPT !.csv_data = IF source = "csv" THEN result ELSE @,
                        !.json_data = IF source = "json" THEN result ELSE @,
                        !.api_data = IF source = "api" THEN result ELSE @,
                        !.pc = "calculate"]
      [] loc.pc = "calculate" ->
            [loc EXCEPT !.metrics_data = result,
                        !.pc = IF result = <<>> THEN "main" ELSE "validate"]
      [] loc.pc = "validate" ->
            [loc EXCEPT !.validated_data = result, !.pc = "load"]
      [] loc.pc = "load" ->
            [loc EXCEPT !.validated_data = LoadArgument(arg, now, reached),
                        !.pc = "export"]
      [] loc.pc = "export" ->
            [loc EXCEPT !.exported_data = arg,
                        !.validated_data = ExportArgument(arg),
                        !.pc = "main"]

\* return task.execute(*args, **kwargs), all dependencies done: the function
\* is called; if it raises the exception propagates, otherwise the task is
\* completed and the call of run returns, to the loop of the run that called
\* it or to run_etl
execute ==
    /\ stack # <<>>
    /\ LET depth == Len(stack)
           top == stack[depth]
       IN  /\ top.k > Len(dependencies(top.name))
           /\ \E out \in func(top.name, top.args, top.kwargs, config) :
                IF out.raised
                THEN Propagate(ExecuteLines(top.name, depth, FALSE),
                               "Error processing: Task failed")
                ELSE /\ tasks' = Executed(tasks, top.name, TRUE)
                     /\ UNCHANGED <<config, revalidated_data, main>>
                     /\ IF depth > 1
                        THEN /\ stack' = [SubSeq(stack, 1, depth - 1)
                                            EXCEPT ![depth - 1].k = @ + 1]
                             /\ log' = log \o ExecuteLines(top.name, depth, TRUE)
                             /\ UNCHANGED <<pc, csv_data, json_data, api_data,
                                            metrics_data, validated_data,
                                            exported_data, raw_data>>
                        ELSE \E now \in LoadTimestamps, reached \in BOOLEAN :
                             LET loc == Continue(Locals, Source, FirstArg(top.args),
                                                 out.result, now, reached)
                             IN  /\ stack' = <<>>
                                 /\ pc' = loc.pc
                                 /\ raw_data' = loc.raw_data
                                 /\ csv_data' = loc.csv_data
                                 /\ json_data' = loc.json_data
                                 /\ api_data' = loc.api_data
                                 /\ metrics_data' = loc.metrics_data
                                 /\ validated_data' = loc.validated_data
                                 /\ exported_data' = loc.exported_data
                                 /\ log' = log \o ExecuteLines(top.name, 1, TRUE)
                                       \o IF loc.pc = "main"
                                          THEN <<Line("ETL pipeline completed",
                                                      Source, 0)>>
                                          ELSE <<>>

\* main on a new Orchestrator: every task registered, none completed
InitMain ==
    /\ pc = "main"
    /\ config = SmallConfig
    /\ csv_data = <<>> /\ json_data = <<>> /\ api_data = <<>>
    /\ metrics_data = <<>>
    /\ validated_data = <<>>
    /\ revalidated_data = <<>>
    /\ exported_data = <<>>
    /\ tasks = [t \in TaskNames |-> [completed |-> FALSE]]
    /\ stack = <<>>
    /\ log = <<>>
    /\ main \in {[data_sources |-> ds, i |-> 0] : ds \in SourceLists}
    /\ raw_data = <<>>

NextMain == main_loop \/ run \/ check_dependency \/ execute

SpecMain == InitMain /\ [][NextMain]_vars

\* main's single thread is at a statement until "Pipeline completed" is
\* logged, and that statement is a step of NextMain that changes pc, stack or
\* log
Running == pc # "completed"

\* the same with the scheduling the single thread of main gives: a step
\* that can be taken is taken.  This is WF_vars(NextMain) with
\* ENABLED <<NextMain>>_vars written as the state predicate it equals,
\* Running
SpecMainFair == SpecMain /\ (<>[]Running => []<><<NextMain>>_vars)

\* a scheduler on which add_task was called for all tasks, or for all but
\* one
InitScheduler ==
    /\ pc = "main"
    /\ config = SmallConfig
    /\ csv_data = <<>> /\ json_data = <<>> /\ api_data = <<>>
    /\ metrics_data = <<>>
    /\ validated_data = <<>>
    /\ revalidated_data = <<>>
    /\ exported_data = <<>>
    /\ \E missing \in {{}} \cup {{t} : t \in TaskNames} :
        tasks = [t \in TaskNames \ missing |-> [completed |-> FALSE]]
    /\ stack = <<>>
    /\ log = <<>>
    /\ main \in {[data_sources |-> ds, i |-> 0] : ds \in SourceLists}
    /\ raw_data = <<>>

SpecScheduler == InitScheduler /\ [][NextMain]_vars

(***************************************************************************)
(* Claims about validate on price tables                                   *)
(***************************************************************************)
Le(a, b) == a # NaN /\ b # NaN /\ a <= b

InPriceRange(v) == Le(min_stock_price, v) /\ Le(v, max_stock_price)

OhlcInvariant(row) ==
    /\ Le(row.Low, row.Open) /\ Le(row.Open, row.High)
    /\ Le(row.Low, row.Close) /\ Le(row.Close, row.High)
    /\ \A c \in OhlcCols : InPriceRange(row[c])

KeyCols == {"Date", "Symbol", "Open", "High", "Low", "Close"}

\* some value of the column is present and in range
HasValidPrice(df, col) == \E i \in 1..Len(df) : InPriceRange(df[i][col])

\* C1: after validate returns for a non-empty price table, every row has
\* Low <= Open <= High, Low <= Close <= High and its four prices within
\* [min_stock_price, max_stock_price].
C1_OhlcInvariantAfterValidate ==
    pc = "validated" =>
        \A i \in 1..Len(validated_data) : OhlcInvariant(validated_data[i])

\* The invariant of C1 for the tables in which each price column has a value
\* in range to repair from.
OhlcInvariantWhenRepairable ==
    (pc = "validated" /\ \A c \in OhlcCols : HasValidPrice(metrics_data, c)) =>
        \A i \in 1..Len(validated_data) : OhlcInvariant(validated_data[i])

\* C2: the table validate returns for a non-empty price table has no missing
\* value in Date, Symbol, Open, High, Low, Close.
C2_NoNullKeyColumns ==
    pc = "validated" =>
        \A i \in 1..Len(validated_data) :
            \A c \in KeyCols : ~IsNull(c, validated_data[i][c])

\* C3: validate is idempotent on price tables: a second pass returns the
\* table the first pass returned.
C3_ValidateIdempotentOnPrices ==
    pc = "revalidated" => revalidated_data = validated_data

\* The idempotence of C3 for the tables in which each price column has a
\* value in range to repair from.
IdempotentWhenRepairable ==
    (pc = "revalidated" /\ \A c \in OhlcCols : HasValidPrice(metrics_data, c)) =>
        revalidated_data = validated_data

(***************************************************************************)
(* Validation of an economic-indicator table                               *)
(***************************************************************************)
\* missing, just below / at the lower bound, at / just above the upper one
IndicatorVals(col) ==
    {NaN, IndicatorMin(col) - 1, IndicatorMin(col),
     IndicatorMax(col), IndicatorMax(col) + 1}

EconRow(i, gdp, unemp, infl, rate) ==
    [Date |-> i, GDP_Growth |-> gdp, Unemployment_Rate |-> unemp,
     Inflation_Rate |-> infl, Interest_Rate |-> rate]

CleanEconRow(i) == EconRow(i, 2, 5, 3, 4)

\* one indicator over every value sequence, the others in range
EconTables ==
    UNION {UNION {{[j \in 1..n |-> [CleanEconRow(j) EXCEPT ![c] = xs[j]]] :
                    xs \in [1..n -> IndicatorVals(c)]} :
                  c \in {"GDP_Growth", "Unemployment_Rate", "Inflation_Rate",
                         "Interest_Rate"}} : n \in 1..MaxRows}

InitEcon ==
    /\ pc = "calculated"
    /\ config = NoConfig
    /\ csv_data = <<>> /\ json_data = <<>> /\ api_data = <<>>
    /\ metrics_data \in EconTables
    /\ validated_data = <<>>
    /\ revalidated_data = <<>>
    /\ exported_data = <<>>
    /\ Idle

SpecEcon == InitEcon /\ [][NextValidate]_vars

BoundedIndicators == {"GDP_Growth", "Unemployment_Rate", "Inflation_Rate"}

InIndicatorRange(col, v) == v # NaN /\ ~IndicatorOutOfRange(col, v)

\* the first value present in the column is out of range and a later one is
\* in range: the first pass leaves the leading value missing
LeadingOutOfRange(df, col) ==
    \E i \in 1..Len(df) :
        /\ IndicatorOutOfRange(col, df[i][col])
        /\ \A j \in 1..(i - 1) : df[j][col] = NaN
        /\ \E k \in (i + 1)..Len(df) : InIndicatorRange(col, df[k][col])

\* C4 as stated: validate is idempotent on every economic-indicator table,
\* tables whose first indicator value is out of range included.
C4_ValidateIdempotentOnIndicators ==
    (pc = "revalidated" /\ IsEconomicShaped(metrics_data)) =>
        revalidated_data = validated_data

\* C4 amended: validate is idempotent on the economic-indicator tables in
\* which no bounded indicator has an out-of-range first value followed by a
\* value in range.
C4_IdempotentUnlessLeadingOutOfRange ==
    (/\ pc = "revalidated"
     /\ IsEconomicShaped(metrics_data)
     /\ \A c \in BoundedIndicators : ~LeadingOutOfRange(metrics_data, c)) =>
        revalidated_data = validated_data

\* a second pass over a table whose out-of-range value was repaired from the
\* row before it
C4_Witness ==
    /\ pc = "revalidated"
    /\ \A c \in BoundedIndicators : ~LeadingOutOfRange(metrics_data, c)
    /\ \E i \in 2..Len(metrics_data) :
        /\ IndicatorOutOfRange("GDP_Growth", metrics_data[i].GDP_Growth)
        /\ InIndicatorRange("GDP_Growth", metrics_data[i - 1].GDP_Growth)
        /\ validated_data[i].GDP_Growth = metrics_data[i - 1].GDP_Growth
    /\ revalidated_data = validated_data

(***************************************************************************)
(* Claims about calculate on price tables                                  *)
(***************************************************************************)
\* the rows of a symbol, in table order
RowsOf(df, s) == SelectSeq(df, LAMBDA r : r.Symbol = s)

\* a finite rational below another
RatLess(a, b) == a[1] * b[2] < b[1] * a[2]

Defined(q) == q # RNaN

RECURSIVE SumClose(_, _, _)
SumClose(rows, lo, hi) ==
    IF lo > hi THEN 0 ELSE rows[lo].Close + SumClose(rows, lo + 1, hi)

\* the table with the rows of the other symbols removed, with their closes
\* changed, and with a row of a further symbol added in front
OtherSymbolVariants(df, s) ==
    {RowsOf(df, s),
     [i \in 1..Len(df) |->
        IF df[i].Symbol = s THEN df[i]
        ELSE [df[i] EXCEPT !.Close = IF @ = 100 THEN 200 ELSE 100]],
     <<CalcRow(1, 3, 100)>> \o df}

\* C5: the output rows of a symbol are the same for any two inputs with the
\* same rows of that symbol, whatever rows of other symbols are removed,
\* changed or added.
C5_NoCrossSymbolLeakage ==
    pc = "calculated" =>
        \A s \in Symbols :
            \A v \in OtherSymbolVariants(csv_data, s) :
                RowsOf(Calculate(v, <<>>, <<>>, config), s)
                    = RowsOf(metrics_data, s)

\* two symbols interleaved in the input, the first with a defined return
C5_Witness ==
    /\ pc = "calculated"
    /\ \E i, j, k \in 1..Len(csv_data) :
        /\ i < j /\ j < k
        /\ csv_data[i].Symbol = 1 /\ csv_data[j].Symbol = 2
        /\ csv_data[k].Symbol = 1
        /\ csv_data[j].Close # csv_data[i].Close
    /\ \E i \in 1..Len(metrics_data) :
        metrics_data[i].Symbol = 1 /\ Defined(metrics_data[i].Daily_Return)

\* C6: in the output the rows of each symbol are in ascending Date order
\* whatever the input order, none is lost, and the rows up to a date are what
\* calculate yields for the input rows of the symbol up to that date.
C6_ChronologicalWithinSymbol ==
    pc = "calculated" =>
        \A s \in Symbols :
            LET R == RowsOf(metrics_data, s)
            IN  /\ Len(R) = Len(RowsOf(csv_data, s))
                /\ \A i \in 1..(Len(R) - 1) : R[i].Date < R[i + 1].Date
                /\ \A k \in 1..Len(R) :
                    SubSeq(R, 1, k) =
                        Calculate(SelectSeq(csv_data,
                                      LAMBDA r : r.Symbol = s /\ r.Date <= R[k].Date),
                                  <<>>, <<>>, config)

\* a symbol whose rows arrive out of date order
C6_Witness ==
    /\ pc = "calculated"
    /\ \E i, j \in 1..Len(csv_data) :
        /\ i < j
        /\ csv_data[i].Symbol = csv_data[j].Symbol
        /\ csv_data[i].Date > csv_data[j].Date
        /\ csv_data[i].Close # csv_data[j].Close

\* C7: MA_Signal is +1 iff both averages are defined and short > long, -1 iff
\* both are defined and short < long, and 0 otherwise (a tie, or an average
\* undefined); short [1,2,3] against long [3,2,1] gives [-1,0,1].
C7_MaSignalTernaryStrict ==
    /\ [k \in 1..3 |-> MaSignal(<<k, 1>>, <<4 - k, 1>>)] = <<-1, 0, 1>>
    /\ pc = "calculated" =>
        \A i \in 1..Len(metrics_data) :
            LET r == metrics_data[i]
                both == Defined(r.MA_short) /\ Defined(r.MA_long)
            IN  /\ r.MA_Signal \in {-1, 0, 1}
                /\ r.MA_Signal = 1 <=> (both /\ RatLess(r.MA_long, r.MA_short))
                /\ r.MA_Signal = -1 <=> (both /\ RatLess(r.MA_short, r.MA_long))
                /\ r.MA_Signal = 0 <=> (~both \/ r.MA_short = r.MA_long)

\* a series with a warm-up row, a row where the averages tie and a row where
\* the short average is above the long one
C7_Witness ==
    /\ pc = "calculated"
    /\ \E i, j, k \in 1..Len(metrics_data) :
        /\ ~Defined(metrics_data[i].MA_long) /\ metrics_data[i].MA_Signal = 0
        /\ Defined(metrics_data[j].MA_long)
        /\ metrics_data[j].MA_short = metrics_data[j].MA_long
        /\ metrics_data[j].MA_Signal = 0
        /\ metrics_data[k].MA_Signal = 1

\* the mean of the n closes ending at row p of a series, undefined before
\* the n-th row
TrailingMean(R, p, n) ==
    IF p >= n THEN Norm(SumClose(R, p - n + 1, p), n) ELSE RNaN

\* C8: in each symbol's series a moving average is defined from the row
\* that completes its window on, and is the arithmetic mean of the closes of
\* the window; a series shorter than the window has it undefined in all rows.
C8_MovingAverageWarmUp ==
    pc = "calculated" =>
        \A s \in Symbols :
            LET R == RowsOf(metrics_data, s)
            IN  \A p \in 1..Len(R) :
                    /\ R[p].MA_short = TrailingMean(R, p, config.ma_short_window)
                    /\ R[p].MA_long = TrailingMean(R, p, config.ma_long_window)

\* one symbol fills the long window, the other is shorter than the short one
C8_Witness ==
    /\ pc = "calculated"
    /\ Len(RowsOf(metrics_data, 1)) >= config.ma_long_window
    /\ Len(RowsOf(metrics_data, 2)) \in 1..(config.ma_short_window - 1)
    /\ \E i \in 1..Len(metrics_data) :
        /\ metrics_data[i].Symbol = 1
        /\ Defined(metrics_data[i].MA_long)
        /\ metrics_data[i].MA_long # metrics_data[i].MA_short
    /\ \A i \in 1..Len(metrics_data) :
        metrics_data[i].Symbol = 2 => ~Defined(metrics_data[i].MA_short)

\* the input row of the same symbol on the date before
PreviousRow(df, r) ==
    CHOOSE q \in {df[i] : i \in 1..Len(df)} :
        q.Symbol = r.Symbol /\ q.Date = r.Date - 1

\* C9: Daily_Return is undefined in the earliest row of every symbol and is
\* Close/Close_prev - 1 in every later row, Close_prev the close of the
\* previous row of the same symbol in Date order.
C9_DailyReturn ==
    pc = "calculated" =>
        \A i \in 1..Len(metrics_data) :
            LET r == metrics_data[i]
            IN  IF r.Date = 1 THEN r.Daily_Return = RNaN
                ELSE LET prev == PreviousRow(csv_data, r).Close
                     IN  r.Daily_Return = Norm(r.Close - prev, prev)

\* a row whose predecessor in the input is a row of the other symbol with a
\* close other than that of its own previous date
C9_Witness ==
    /\ pc = "calculated"
    /\ \E i \in 2..Len(csv_data) :
        /\ csv_data[i].Date > 1
        /\ csv_data[i - 1].Symbol # csv_data[i].Symbol
        /\ csv_data[i - 1].Close # PreviousRow(csv_data, csv_data[i]).Close
        /\ csv_data[i].Close # PreviousRow(csv_data, csv_data[i]).Close

(***************************************************************************)
(* Claims about the RSI                                                    *)
(***************************************************************************)
\* no close of the 14 rows ending at row p is below the close before it
NoLossInWindow(R, p) ==
    \A q \in (p - RSI_WINDOW + 1)..p : q >= 2 => R[q].Close >= R[q - 1].Close

\* some close of the 14 rows ending at row p is above the close before it
GainInWindow(R, p) ==
    \E q \in (p - RSI_WINDOW + 1)..p : q >= 2 /\ R[q].Close > R[q - 1].Close

RsiInRange(q) == Defined(q) => (q[2] > 0 /\ 0 <= q[1] /\ q[1] <= 100 * q[2])

\* C10: at every row whose 14-row window is filled and has no loss, a flat
\* window included, RSI is 100; and every defined RSI is within [0, 100].
C10_RsiZeroLossIs100 ==
    pc = "calculated" =>
        \A p \in RSI_WINDOW..Len(metrics_data) :
            /\ NoLossInWindow(metrics_data, p) => metrics_data[p].RSI = <<100, 1>>
            /\ RsiInRange(metrics_data[p].RSI)

\* What calculate does yield: 100 where the window has a gain and no loss,
\* no value where the window is flat, and a value within [0, 100] elsewhere.
RsiZeroLossAsComputed ==
    pc = "calculated" =>
        \A p \in 1..Len(metrics_data) :
            LET R == metrics_data
            IN  /\ RsiInRange(R[p].RSI)
                /\ (p >= RSI_WINDOW /\ NoLossInWindow(R, p) /\ GainInWindow(R, p))
                        => R[p].RSI = <<100, 1>>
                /\ (p >= RSI_WINDOW /\ NoLossInWindow(R, p) /\ ~GainInWindow(R, p))
                        => R[p].RSI = RNaN

(***************************************************************************)
(* Claims about the repair steps of validate on price tables               *)
(***************************************************************************)
PriceColSet == {PriceCols[k] : k \in 1..Len(PriceCols)}

\* the table as it is after the range repair of the price columns
AfterPriceRepair(df) == RepairPrices(FrameBfill(FrameFfill(df)), 1)

\* the rows before / after row i whose value in the column is in range
InRangeBefore(df, c, i) == {j \in 1..(i - 1) : InPriceRange(df[j][c])}

InRangeAfter(df, c, i) == {j \in (i + 1)..Len(df) : InPriceRange(df[j][c])}

Greatest(S) == CHOOSE x \in S : \A y \in S : y <= x

Least(S) == CHOOSE x \in S : \A y \in S : x <= y

\* C11: in every price column present, the range repair replaces each value
\* below min_stock_price or above max_stock_price by the nearest preceding
\* in-range value of the column or, when no row before it is in range, by
\* the nearest following in-range value, and leaves the in-range values as
\* they are; Open, Close and Adj_Close reach the output of validate so.
C11_PriceClampRepair ==
    pc = "validated" =>
        LET inp == metrics_data
            out == AfterPriceRepair(inp)
        IN  \A c \in PriceColSet \cap Columns(inp) :
                \A i \in 1..Len(inp) :
                    /\ InPriceRange(inp[i][c]) => out[i][c] = inp[i][c]
                    /\ (OutOfRange(inp[i][c]) /\ InRangeBefore(inp, c, i) # {})
                            => out[i][c] = inp[Greatest(InRangeBefore(inp, c, i))][c]
                    /\ (/\ OutOfRange(inp[i][c])
                        /\ InRangeBefore(inp, c, i) = {}
                        /\ InRangeAfter(inp, c, i) # {})
                            => out[i][c] = inp[Least(InRangeAfter(inp, c, i))][c]
                    /\ c \in {"Open", "Close", "Adj_Close"}
                            => validated_data[i][c] = out[i][c]

\* an out-of-range close between two different closes in range, taken from
\* the row before it
C11_Witness ==
    /\ pc = "validated"
    /\ Len(metrics_data) = 3
    /\ metrics_data[1].Close = min_stock_price
    /\ metrics_data[2].Close = max_stock_price + 1
    /\ metrics_data[3].Close = max_stock_price
    /\ validated_data[2].Close = min_stock_price

PricesPresent(row) == \A c \in OhlcCols : row[c] # NaN

OhlcValues(row) == {row[c] : c \in OhlcCols}

\* one of the five conditions of the OHLC check holds of the row
ViolatesOhlc(row) ==
    \/ Lt(row.High, row.Low) \/ Lt(row.High, row.Open)
    \/ Lt(row.High, row.Close)
    \/ Gt(row.Low, row.Open) \/ Gt(row.Low, row.Close)

\* C12: the OHLC repair is a per-row clamp: in every row that after the
\* range repair has High < Low, High < Open, High < Close, Low > Open or
\* Low > Close, High becomes the greatest and Low the least of the row's own
\* Open, High, Low, Close; Open and Close are unchanged, and a row that
\* violates none of the five conditions is not modified.
C12_OhlcRepairPerRow ==
    pc = "validated" =>
        LET rep == AfterPriceRepair(metrics_data)
        IN  \A i \in 1..Len(rep) :
                LET r == rep[i]
                    v == validated_data[i]
                IN  /\ v.Open = r.Open /\ v.Close = r.Close
                    /\ ~ViolatesOhlc(r) => (v.High = r.High /\ v.Low = r.Low)
                    /\ (ViolatesOhlc(r) /\ PricesPresent(r)) =>
                            /\ v.High = Greatest(OhlcValues(r))
                            /\ v.Low = Least(OhlcValues(r))

\* a table with a row whose High and Low are both replaced from the row's
\* own Open and Close, next to a row that is left as it is
C12_Witness ==
    /\ pc = "validated"
    /\ \E i, j \in 1..Len(metrics_data) :
        LET rep == AfterPriceRepair(metrics_data)
        IN  /\ ViolatesOhlc(rep[i]) /\ PricesPresent(rep[i])
            /\ validated_data[i].High # rep[i].High
            /\ validated_data[i].Low # rep[i].Low
            /\ validated_data[i].High = rep[i].Open
            /\ validated_data[i].Low = rep[i].Close
            /\ j # i /\ ~ViolatesOhlc(rep[j])
            /\ validated_data[j].High = rep[j].High

\* |r| > 0.5 of a return that is not missing
AboveHalf(r) == r # RNaN /\ 2 * Abs(r[1]) > r[2]

\* the table as it is before the extreme returns are flagged
BeforeFlagging(df) == ClampVolume(RepairOHLC(AfterPriceRepair(df)))

WithoutFlag(row) == [c \in DOMAIN row \ {"Extreme_Return_Flag"} |-> row[c]]

\* C13: for a price table with a Daily_Return column the output of validate
\* has, in every row, Extreme_Return_Flag = TRUE if |Daily_Return| > 0.5 and
\* FALSE otherwise (0.5 itself is not flagged); no row is removed and no
\* other column is changed by the flagging.
C13_ExtremeReturnFlag ==
    (pc = "validated" /\ "Daily_Return" \in Columns(metrics_data)) =>
        /\ Len(validated_data) = Len(metrics_data)
        /\ \A i \in 1..Len(validated_data) :
            LET v == validated_data[i]
            IN  /\ "Extreme_Return_Flag" \in DOMAIN v
                /\ v.Extreme_Return_Flag = AboveHalf(v.Daily_Return)
                /\ WithoutFlag(v) = BeforeFlagging(metrics_data)[i]

\* What validate does yield: the flag column with these values when some
\* return of the table is extreme, and no flag column at all otherwise.
ExtremeFlagAsComputed ==
    (pc = "validated" /\ "Daily_Return" \in Columns(metrics_data)) =>
        /\ Len(validated_data) = Len(metrics_data)
        /\ \A i \in 1..Len(validated_data) :
            LET v == validated_data[i]
                some == \E j \in 1..Len(validated_data) :
                            AboveHalf(validated_data[j].Daily_Return)
            IN  /\ "Extreme_Return_Flag" \in DOMAIN v <=> some
                /\ some => v.Extreme_Return_Flag = AboveHalf(v.Daily_Return)
                /\ WithoutFlag(v) = BeforeFlagging(metrics_data)[i]

\* C14: every negative Volume of a price table is 0 in the output of
\* validate, every Volume that is present and not negative is unchanged, and
\* no Volume of the output is negative.
C14_VolumeClamp ==
    (pc = "validated" /\ "Volume" \in Columns(metrics_data)) =>
        \A i \in 1..Len(metrics_data) :
            LET before == metrics_data[i].Volume
                after == validated_data[i].Volume
            IN  /\ (before # NaN /\ before < 0) => after = 0
                /\ (before # NaN /\ before >= 0) => after = before
                /\ after = NaN \/ after >= 0

\* a negative volume clamped next to a positive one that is kept
C14_Witness ==
    /\ pc = "validated"
    /\ \E i, j \in 1..Len(metrics_data) :
        /\ metrics_data[i].Volume = -50 /\ validated_data[i].Volume = 0
        /\ metrics_data[j].Volume = 100 /\ validated_data[j].Volume = 100

(***************************************************************************)
(* Claims about calculate on economic indicators                           *)
(***************************************************************************)
\* the input row of a date
RowOfDate(df, d) == CHOOSE r \in {df[i] : i \in 1..Len(df)} : r.Date = d

C16_EconomicShapeRecognition ==
    (/\ pc = "calculated"
     /\ ~IsPriceShaped(json_data)
     /\ YoYColSet \cap Columns(json_data) # {}) =>
        \A c \in YoYColSet \cap Columns(json_data) :
            YoYName(c) \in Columns(metrics_data)

\* What calculate does yield: the YoY columns when GDP_Growth,
\* Unemployment_Rate or Inflation_Rate is among the columns, and the table
\* as it came otherwise.
ShapeRecognitionAsComputed ==
    (pc = "calculated" /\ ~IsPriceShaped(json_data)) =>
        IF {"GDP_Growth", "Unemployment_Rate", "Inflation_Rate"}
               \cap Columns(json_data) # {}
        THEN \A c \in YoYColSet \cap Columns(json_data) :
                YoYName(c) \in Columns(metrics_data)
        ELSE metrics_data = json_data

(***************************************************************************)
(* Claims about validate on economic indicators                            *)
(***************************************************************************)
\* the rows before row i whose value of the indicator is in range
IndicatorInRangeBefore(df, c, i) ==
    {j \in 1..(i - 1) : InIndicatorRange(c, df[j][c])}

\* C17: the range repair of GDP_Growth, Unemployment_Rate and Inflation_Rate
\* is forward-only: a value outside the bounds is replaced by the nearest
\* preceding in-range value of the column and is left missing when there is
\* none, whatever follows it; a value within the bounds (inclusive) is
\* unchanged; no out-of-range value is left in the output.
C17_IndicatorRepairForwardOnly ==
    (pc = "validated" /\ IsEconomicShaped(metrics_data)) =>
        \A c \in BoundedIndicators \cap Columns(metrics_data) :
            \A i \in 1..Len(metrics_data) :
                LET before == metrics_data[i][c]
                    after == validated_data[i][c]
                    prev == IndicatorInRangeBefore(metrics_data, c, i)
                IN  /\ InIndicatorRange(c, before) => after = before
                    /\ (IndicatorOutOfRange(c, before) /\ prev # {})
                            => after = metrics_data[Greatest(prev)][c]
                    /\ (IndicatorOutOfRange(c, before) /\ prev = {})
                            => after = NaN
                    /\ ~IndicatorOutOfRange(c, after)

\* a GDP growth of -11 before one of -10 and one of 16: the first is left
\* missing, the last takes the -10 of the row before it
C17_Witness ==
    /\ pc = "validated"
    /\ IsEconomicShaped(metrics_data)
    /\ Col(metrics_data, "GDP_Growth") = <<-11, -10, 16>>
    /\ Col(validated_data, "GDP_Growth") = <<NaN, -10, -10>>

ValueSemanticsRaised == pc = "failed"

\* C19: the loaders read the validated table only: after load_to_db and
\* export_to_csv the table is still the one validate returned, and it is the
\* table export_to_csv was given.
C19_LoadersReadOnly ==
    pc = "exported" =>
        /\ validated_data = Validate(metrics_data)
        /\ exported_data = Validate(metrics_data)

\* What the loaders do to the table: the load adds a load_timestamp column
\* to it once it has its engine, and the export is given the table so.
LoadersAsComputed ==
    pc = "exported" =>
        /\ exported_data = validated_data
        /\ \/ exported_data = Validate(metrics_data)
           \/ \E now \in LoadTimestamps :
                exported_data =
                    AddCol(Validate(metrics_data), "load_timestamp",
                           [i \in 1..Len(metrics_data) |-> now])

(***************************************************************************)
(* Claims about the pipeline on a trend                                    *)
(***************************************************************************)
\* C20: for a single symbol with strictly increasing closes and the windows
\* 20 and 50, MA_Signal is +1 in every row from the 50th on and 0 in every
\* row before it.
C20_UptrendSignal ==
    pc = "calculated" =>
        /\ config.ma_short_window = 20 /\ config.ma_long_window = 50
        /\ \A i \in 1..Len(metrics_data) :
            /\ metrics_data[i].Date = i
            /\ i > 1 => metrics_data[i].Close > metrics_data[i - 1].Close
            /\ metrics_data[i].MA_Signal = IF i >= 50 THEN 1 ELSE 0

\* the 60 closes 100..159: no signal in the 49th row, +1 in the 50th and
\* in the last
C20_Witness ==
    /\ pc = "calculated"
    /\ Len(metrics_data) = 60
    /\ metrics_data[1].Close = 100 /\ metrics_data[60].Close = 159
    /\ metrics_data[49].MA_Signal = 0
    /\ Defined(metrics_data[49].MA_short) /\ ~Defined(metrics_data[49].MA_long)
    /\ metrics_data[50].MA_Signal = 1
    /\ metrics_data[60].MA_Signal = 1

(***************************************************************************)
(* Claims about the inputs neither component works on                      *)
(***************************************************************************)
\* a table that has rows and is neither price-shaped nor one with any of
\* the five indicator columns
Unrecognized(df) ==
    /\ df # None /\ df # <<>>
    /\ ~IsPriceShaped(df)
    /\ Columns(df) \cap YoYColSet = {}

\* the one input of calculate if it was given one table only
OnlyInput ==
    LET dfs == SelectSeq(<<csv_data, json_data, api_data>>,
                         LAMBDA d : d # None /\ d # <<>>)
    IN  IF Len(dfs) = 1 THEN dfs[1] ELSE <<>>

\* C21: for a table with rows that is neither price-shaped nor
\* economic-shaped, calculate and validate each return a table with the
\* columns, rows, row order and values of the input, missing values
\* included, and neither raises.
C21_UnrecognizedShapePassesThrough ==
    /\ (pc \in {"calculated", "done", "failed"} /\ Unrecognized(OnlyInput)) =>
            pc = "calculated" /\ metrics_data = OnlyInput
    /\ (pc \in {"validated", "failed"} /\ Unrecognized(metrics_data)) =>
            pc = "validated" /\ validated_data = metrics_data

\* an unknown format with a missing value and the dates descending has gone
\* through both calls as it was
C21_Witness ==
    /\ pc = "validated"
    /\ Unrecognized(csv_data) /\ json_data = <<>> /\ api_data = <<>>
    /\ Len(csv_data) = 2
    /\ csv_data[2].Value = NaN /\ csv_data[1].Date > csv_data[2].Date
    /\ metrics_data = csv_data
    /\ validated_data = csv_data

\* None or a table without rows
Absent(df) == df = None \/ df = <<>>

\* C22: calculate returns an empty table without raising whenever each of
\* csv_data, json_data and api_data is None or has no rows, and validate
\* returns an empty table when its input is None or has no rows.
C22_EmptyInput ==
    /\ (/\ pc \in {"calculated", "done", "failed"}
        /\ Absent(csv_data) /\ Absent(json_data) /\ Absent(api_data)) =>
            pc = "done" /\ metrics_data = <<>>
    /\ (pc \in {"validated", "validate_failed"} /\ Absent(metrics_data)) =>
            pc = "validated" /\ validated_data = <<>>

\* calculate has returned the empty table for None, an empty table and None
C22_Witness ==
    /\ pc = "done"
    /\ csv_data = None /\ json_data = <<>> /\ api_data = None
    /\ metrics_data = <<>>

\* validate has returned the empty table for None
EmptyInputValidated ==
    pc = "validated" /\ metrics_data = None /\ validated_data = <<>>

(***************************************************************************)
(* Claims about the rows calculate returns                                 *)
(***************************************************************************)
\* the row-wise concatenation of the inputs that are given and not empty
Concatenation ==
    ConcatFrames(NonEmptyInputs(csv_data, json_data, api_data))

\* a row of the result cut down to the columns of the concatenation
InputPart(row) == [c \in Columns(Concatenation) |-> row[c]]

\* how often a row occurs in a table
Occurrences(rows, r) == Cardinality({k \in 1..Len(rows) : rows[k] = r})

\* C24: calculate drops and duplicates no row: the table it returns has
\* exactly one row for each row of the concatenation of the non-empty
\* inputs, in every branch, rows with a missing Symbol included.
C24_NoRowDroppedOrDuplicated ==
    pc = "calculated" =>
        /\ Len(metrics_data) = Len(Concatenation)
        /\ \A i \in 1..Len(Concatenation) :
            Occurrences([j \in 1..Len(metrics_data) |->
                            InputPart(metrics_data[j])], Concatenation[i])
                = Occurrences(Concatenation, Concatenation[i])

\* What calculate returns: in the price branch the rows whose Symbol is
\* not missing, each once, and none of the rows whose Symbol is missing; in
\* the other two branches every row once.
RowsAsComputed ==
    pc = "calculated" =>
        LET kept == IF IsPriceShaped(Concatenation)
                    THEN SelectSeq(Concatenation,
                                   LAMBDA r : r.Symbol # NaN)
                    ELSE Concatenation
            parts == [j \in 1..Len(metrics_data) |->
                        InputPart(metrics_data[j])]
        IN  /\ Len(metrics_data) = Len(kept)
            /\ \A i \in 1..Len(kept) :
                Occurrences(parts, kept[i]) = Occurrences(kept, kept[i])

\* a price table and an indicator table have been concatenated and the
\* indicator rows are not in the result
RowsDropped ==
    /\ pc = "calculated"
    /\ IsPriceShaped(csv_data) /\ IsEconomicShaped(json_data)
    /\ Len(csv_data) = 2 /\ Len(json_data) = 2
    /\ Len(metrics_data) = 2

(***************************************************************************)
(* Claims about the window of the RSI                                      *)
(***************************************************************************)
\* the sum of the rises (sign = 1) or of the falls (sign = -1) of the close
\* over the rows lo..hi of R, each against the row before it
RECURSIVE SumMoves(_, _, _, _)
SumMoves(R, lo, hi, sign) ==
    IF lo > hi THEN 0
    ELSE LET d == sign * (R[lo].Close - R[lo - 1].Close)
         IN  (IF d > 0 THEN d ELSE 0) + SumMoves(R, lo + 1, hi, sign)

\* 100 - 100 / (1 + avg_gain / avg_loss) over the deltas of the rows lo..p
RsiOfDeltas(R, lo, p) ==
    Rsi(Norm(SumMoves(R, lo, p, 1), RSI_WINDOW),
        Norm(SumMoves(R, lo, p, -1), RSI_WINDOW))

\* C25: RSI is computed from exactly the 14 most recent deltas of the
\* close: a row that has no 14 deltas ending at it (the first 14 rows of
\* its symbol) has no RSI, and every later row has 100 - 100 / (1 +
\* avg_gain / avg_loss) over the 14 deltas ending at it.
C25_RsiWindow ==
    pc = "calculated" =>
        \A p \in 1..Len(metrics_data) :
            metrics_data[p].RSI =
                IF p <= RSI_WINDOW THEN RNaN
                ELSE RsiOfDeltas(metrics_data, p - RSI_WINDOW + 1, p)

\* What calculate yields: the first 13 rows have no RSI; the 14th has one,
\* computed from its 13 deltas and a zero in the place of the delta the
\* first row does not have; every later row has the RSI of its 14 deltas.
RsiWindowAsComputed ==
    pc = "calculated" =>
        \A p \in 1..Len(metrics_data) :
            metrics_data[p].RSI =
                IF p < RSI_WINDOW THEN RNaN
                ELSE IF p = RSI_WINDOW THEN RsiOfDeltas(metrics_data, 2, p)
                ELSE RsiOfDeltas(metrics_data, p - RSI_WINDOW + 1, p)

\* the 14th row has an RSI below 100, the 15th one of its 14 deltas
RsiInFourteenthRow ==
    /\ pc = "calculated"
    /\ Len(metrics_data) = 15
    /\ Defined(metrics_data[14].RSI)
    /\ metrics_data[14].RSI # <<100, 1>>
    /\ Defined(metrics_data[15].RSI)
    /\ metrics_data[15].RSI # metrics_data[14].RSI

(***************************************************************************)
(* Claims about validate on tables of several symbols                      *)
(***************************************************************************)
\* C26: the fills and the price repair of validate do not leak across
\* symbols: in the table calculate returns, sorted per symbol and date, a
\* missing value in a row of a symbol, the undefined first values of
\* Daily_Return and of the moving averages included, is replaced only by a
\* value of the same symbol, so the validated rows of a symbol are the same
\* whatever rows of other symbols are removed, changed or added.
C26_ValidateNoCrossSymbolLeakage ==
    pc = "validated" =>
        \A s \in Symbols :
            \A v \in OtherSymbolVariants(csv_data, s) :
                RowsOf(Validate(Calculate(v, <<>>, <<>>, config)), s)
                    = RowsOf(validated_data, s)

\* the first row of the second symbol has been given the Daily_Return of
\* the last row of the first symbol
ReturnFilledAcrossSymbols ==
    /\ pc = "validated"
    /\ \E i \in 2..Len(metrics_data) :
        /\ metrics_data[i - 1].Symbol # metrics_data[i].Symbol
        /\ ~Defined(metrics_data[i].Daily_Return)
        /\ Defined(metrics_data[i - 1].Daily_Return)
        /\ validated_data[i].Daily_Return = metrics_data[i - 1].Daily_Return
        /\ \E j \in (i + 1)..Len(metrics_data) :
            /\ metrics_data[j].Symbol = metrics_data[i].Symbol
            /\ Defined(metrics_data[j].Daily_Return)
            /\ metrics_data[j].Daily_Return # validated_data[i].Daily_Return

(***************************************************************************)
(* Claims about main, run_etl and the scheduler                            *)
(***************************************************************************)
\* the run_etl call, counted from 1, during which line p was written
CallOf(p) == Cardinality({q \in 1..p : log[q].line = "Processing"})

\* line p is the start of a task function
Executing(p) == log[p].line = "Executing task"

\* the sources for which main has called run_etl, in order
Processed ==
    LET lines == SelectSeq(log, LAMBDA l : l.line = "Processing")
    IN  [k \in 1..Len(lines) |-> lines[k].name]

ErrorLines ==
    {"Error processing: Task failed", "Error processing: Task not found",
     "Error processing: Dependency not found"}

\* the lines that end run_etl call k: its completion, or the error main
\* reports for it
Endings(k) ==
    {p \in 1..Len(log) :
        /\ CallOf(p) = k
        /\ log[p].line \in ErrorLines \cup {"ETL pipeline completed"}}

Rank(name) ==
    CASE name \in {"extract_csv", "extract_json", "extract_api"} -> 1
      [] name \in {"transform_csv_data", "transform_json_data",
                   "transform_api_data"} -> 2
      [] name = "calculate_metrics" -> 3
      [] name = "validate_data" -> 4
      [] name = "load_to_db" -> 5
      [] name = "export_to_csv" -> 6

\* the source of an extract or transform task
SourceOf(name) ==
    CASE name \in {"extract_csv", "transform_csv_data"} -> "csv"
      [] name \in {"extract_json", "transform_json_data"} -> "json"
      [] name \in {"extract_api", "transform_api_data"} -> "api"
      [] OTHER -> "any"

\* x is a stage before y: an earlier stage of the same source, or any
\* earlier stage once the sources are combined
StageBefore(x, y) ==
    /\ Rank(x) < Rank(y)
    /\ Rank(y) >= 3 \/ SourceOf(x) = SourceOf(y)

\* the entry points run_etl has had executed in call k, in order
EntryNames(k) ==
    LET lines == SelectSeq([p \in 1..Len(log) |-> [l |-> log[p], call |-> CallOf(p)]],
                           LAMBDA e : /\ e.call = k
                                      /\ e.l.line = "Executing task"
                                      /\ e.l.depth = 1)
    IN  [j \in 1..Len(lines) |-> lines[j].l.name]

\* the entry points of the stages of a source, in the order of run_etl
StageEntries(source) == [j \in 1..Len(Stages) |-> EntryPoint(Stages[j], source)]

\* table b is table a, or table a with the load_timestamp the load has
\* written into it
SameTable(a, b) ==
    \/ b = a
    \/ \E now \in LoadTimestamps :
        b = AddCol(a, "load_timestamp", [i \in 1..Len(a) |-> now])

\* C27: within one call of run_etl the task functions execute in the order
\* extract, transform, calculate_metrics, validate_data, load_to_db,
\* export_to_csv; load_to_db and export_to_csv execute only after
\* validate_data has returned in the same call and with the table it
\* returned; and none of validate_data, load_to_db and export_to_csv
\* executes when calculate_metrics has returned an empty table or an
\* earlier stage has raised.
C27_StageOrdering ==
    /\ \A a, b \in 1..Len(log) :
        (a < b /\ Executing(a) /\ Executing(b) /\ CallOf(a) = CallOf(b)) =>
            ~StageBefore(log[b].name, log[a].name)
    /\ \A k \in 1..main.i :
        LET done == EntryNames(k)
        IN  /\ Len(done) <= Len(Stages)
            /\ done = SubSeq(StageEntries(main.data_sources[k]), 1, Len(done))
    /\ \A p \in 1..Len(log) :
        (Executing(p) /\ Rank(log[p].name) >= 4) =>
            /\ \E q \in 1..(p - 1) :
                /\ CallOf(q) = CallOf(p)
                /\ log[q] = Line("Task completed", "calculate_metrics", 1)
            /\ \A q \in 1..(p - 1) :
                CallOf(q) = CallOf(p) => log[q].line # "Task failed"
            /\ CallOf(p) = main.i => metrics_data # <<>>
            /\ Rank(log[p].name) >= 5 =>
                \E q \in 1..(p - 1) :
                    /\ CallOf(q) = CallOf(p)
                    /\ log[q] = Line("Task completed", "validate_data", 1)
    /\ (stack # <<>> /\ stack[1].name = "load_to_db") =>
            stack[1].args = <<Validate(metrics_data)>>
    /\ (stack # <<>> /\ stack[1].name = "export_to_csv") =>
            /\ Len(stack[1].args) = 1
            /\ SameTable(Validate(metrics_data), stack[1].args[1])

\* a call for json on an Orchestrator used for csv before has run its six
\* stages, and the call before it ended with an empty metrics table without
\* validate, load or export
C27_Witness ==
    /\ pc = "main" /\ main.i = 2
    /\ EntryNames(2) = StageEntries("json")
    /\ EntryNames(1) = SubSeq(StageEntries("csv"), 1, 3)
    /\ exported_data # <<>>
    /\ SameTable(Validate(metrics_data), exported_data)

\* C28: a call of run_etl with one source executes the extract and
\* transform task functions of that source only, on a new Orchestrator and
\* on one used before.
C28_SourceConfinement ==
    \A p \in 1..Len(log) :
        (Executing(p) /\ Rank(log[p].name) <= 2) =>
            SourceOf(log[p].name) = main.data_sources[CallOf(p)]

\* What run_etl has executed: as entry points the tasks of its own source
\* only; as dependencies of calculate_metrics the transform tasks of the
\* other sources that were not completed, and through them their extract
\* tasks.
ConfinementAsComputed ==
    \A p \in 1..Len(log) :
        (Executing(p) /\ Rank(log[p].name) <= 2) =>
            \/ SourceOf(log[p].name) = main.data_sources[CallOf(p)]
            \/ /\ log[p].depth = 4 - Rank(log[p].name)
               /\ \A q \in 1..(p - 1) :
                    log[q] # Line("Task completed", log[p].name, log[q].depth)
               /\ \E q \in 1..(p - 1) :
                    /\ CallOf(q) = CallOf(p)
                    /\ log[q].line = "Task completed" /\ log[q].depth = 1
                    /\ Rank(log[q].name) = 2

\* the call for csv on a new Orchestrator has executed the extract tasks
\* of json and of the API
OtherSourcesExtracted ==
    /\ main.data_sources = <<"csv">> /\ pc = "completed"
    /\ \E p, q \in 1..Len(log) :
        /\ log[p] = Line("Executing task", "extract_json", 3)
        /\ log[q] = Line("Executing task", "extract_api", 3)
    /\ exported_data # <<>>

\* every dependency of a task is registered and completed
DependenciesCompleted(name) ==
    \A j \in 1..Len(dependencies(name)) :
        /\ dependencies(name)[j] \in DOMAIN tasks
        /\ tasks[dependencies(name)[j]].completed

\* C29: when the function of a task starts through run, every task of its
\* dependencies list is completed; if a dependency is not registered run
\* raises a ValueError, and if the function of a dependency raises, the
\* error propagates; in both cases the function of the dependent task is
\* not executed and its completed flag stays False.
C29_DependencyPrecedence ==
    /\ \A d \in 1..Len(stack) :
        \A j \in 1..(stack[d].k - 1) :
            /\ j <= Len(dependencies(stack[d].name))
            /\ dependencies(stack[d].name)[j] \in DOMAIN tasks
            /\ tasks[dependencies(stack[d].name)[j]].completed
    /\ \A t \in DOMAIN tasks :
        /\ tasks[t].completed => DependenciesCompleted(t)
        /\ ~DependenciesCompleted(t) =>
                \A p \in 1..Len(log) : ~(Executing(p) /\ log[p].name = t)
    /\ \A p \in 1..Len(log) :
        log[p].line = "Task failed" =>
            /\ p < Len(log)
            /\ log[p + 1].line = "Error processing: Task failed"

\* calculate_metrics was run with a dependency that is not registered, after
\* another one had been executed for it: the ValueError has reached main
\* and calculate_metrics has not been executed
C29_Witness ==
    /\ "transform_api_data" \notin DOMAIN tasks
    /\ ~tasks["calculate_metrics"].completed
    /\ tasks["transform_json_data"].completed
    /\ \E p \in 1..Len(log) :
        /\ log[p] = Line("Error processing: Dependency not found", "csv", 0)
        /\ log[p - 1] = Line("Task completed", "transform_json_data", 2)

\* the function of a dependency has raised and the task that depends on it
\* has not been executed
DependencyFailed ==
    /\ "calculate_metrics" \in DOMAIN tasks
    /\ ~tasks["calculate_metrics"].completed
    /\ \E p \in 1..Len(log) :
        log[p] = Line("Task failed", "extract_json", 3)
    /\ \A p \in 1..Len(log) : log[p].name # "calculate_metrics"
    /\ pc = "completed"

\* the position of the stage run_etl is at
StageIndex(stage) == CHOOSE j \in 1..Len(Stages) : Stages[j] = stage

\* each call of run made so far has executed its entry point once
EntryExecutedOnce ==
    \A k \in 1..main.i :
        LET done == EntryNames(k)
        IN  /\ Len(done) <= Len(Stages)
            /\ done = SubSeq(StageEntries(main.data_sources[k]), 1, Len(done))
            /\ (k = main.i /\ pc \in StageSet) => Len(done) = StageIndex(pc) - 1

\* a run made for a dependency is made for a task that is not completed
DependencyRunOnlyIfNotCompleted ==
    \A d \in 2..Len(stack) : ~tasks[stack[d].name].completed

\* the lines at which the function of task t has started as a dependency
DependencyExecutions(t) ==
    {p \in 1..Len(log) : Executing(p) /\ log[p].name = t /\ log[p].depth > 1}

\* C30: on the task graph of the pipeline every call of run terminates;
\* it executes the function of its entry point exactly once, also when the
\* entry point is completed already; it executes a dependency only if the
\* completed flag of the dependency is False; and since a completed flag is
\* never reset, no task function is executed more than once as a dependency
\* over the lifetime of the scheduler.
C30_ExecutionCounts ==
    /\ (stack # <<>>) ~> (stack = <<>>)
    /\ []EntryExecutedOnce
    /\ []DependencyRunOnlyIfNotCompleted
    /\ [][\A t \in DOMAIN tasks : tasks[t].completed => tasks'[t].completed]_vars
    /\ [](\A t \in TaskNames : Cardinality(DependencyExecutions(t)) <= 1)

\* C30, amended: the same, with the last part restricted to the functions
\* that have returned: no task function is executed as a dependency once it
\* is completed, so none completes more than once as a dependency; a
\* dependency whose function has raised is executed again by the next run
\* that depends on it.
C30_ExecutionCountsOfCompleted ==
    /\ (stack # <<>>) ~> (stack = <<>>)
    /\ []EntryExecutedOnce
    /\ []DependencyRunOnlyIfNotCompleted
    /\ [][\A t \in DOMAIN tasks : tasks[t].completed => tasks'[t].completed]_vars
    /\ [](\A t \in TaskNames :
            \A p \in DependencyExecutions(t) :
                \A q \in 1..(p - 1) :
                    ~(log[q].line = "Task completed" /\ log[q].name = t))

\* every call of run has ended; extract_json has been executed twice as a
\* dependency, its function having raised the first time, and
\* calculate_metrics has then been executed with transform_csv_data,
\* completed before, not executed again
C30_Witness ==
    /\ pc = "completed"
    /\ \E p, q \in DependencyExecutions("extract_json") :
        /\ p < q
        /\ log[p + 1] = Line("Task failed", "extract_json", 3)
        /\ log[q + 1] = Line("Task completed", "extract_json", 3)
        /\ \E e \in (q + 1)..Len(log) :
            log[e] = Line("Task completed", "calculate_metrics", 1)
    /\ Cardinality({p \in 1..Len(log) :
                       Executing(p) /\ log[p].name = "transform_csv_data"}) = 1

\* a task completed as a dependency of an earlier call has been executed
\* again as the entry point of a later one
EntryCompletedBefore ==
    \E p, q \in 1..Len(log) :
        /\ p < q
        /\ log[p] = Line("Task completed", "extract_json", 3)
        /\ log[q] = Line("Executing task", "extract_json", 1)

====
